---- MODULE Spec2Model ----
(***************************************************************************)
(* The live session orchestrator of Mochi (services/geminiService) with    *)
(* the resources it holds (microphone stream, audio contexts, connection), *)
(* the alarm scheduler it calls into and the state the App displays.       *)
(*                                                                         *)
(* JavaScript runs one callback at a time: every action below is one       *)
(* synchronous segment of a function, from its entry or from the await it  *)
(* resumes at, up to its next await or its end.                            *)
(***************************************************************************)
EXTENDS Integers, Sequences, FiniteSets, TLC

\* ------------------------------------------------------------------------
\* Bounds of the model
\* ------------------------------------------------------------------------
\* number of startLiveSession calls that pass the guard
MaxStarts == 2
\* length of a transcription accumulator, in text units
MaxText == 3
\* number of message handlers suspended in a search at the same time
MaxPending == 1
\* number of settle timers armed at the same time
MaxTimers == 1

\* a sample is a multiple of 1 / (SampleGrid * 32768)
SampleGrid == 2
\* how many samples are taken next to -1, to 0 and to 1
SampleBand == 40

\* number of alarms registered in one behaviour
MaxAlarms == 2
\* the range of the delay of a timer, in time units: it stands for 2^32 ms,
\* the range of the 32-bit delay that window.setTimeout takes
TimerRange == 4
\* number of weather lookups waiting for their answer at the same time
MaxLookups == 2
\* how long a weather cache entry is valid, in time units: it stands for
\* chunks the script processors capture
MaxChunks == 2
\* the 30 minutes of WEATHER_CACHE_DURATION
WeatherCacheDuration == 2

NULL == 0
Calls == 1..MaxStarts

\* ------------------------------------------------------------------------
\* Text: a string is a sequence of text units; a unit stands for a run of
\* characters.  The phrases the code looks for are sequences of units.
\* ------------------------------------------------------------------------
FarewellVi == <<"tam biet">>
FarewellEn == <<"goodbye">>
WakePhrase == <<"mochi", " ", "oi">>

\* String.prototype.toLowerCase, unit by unit
LowerUnit(u) ==
  CASE u = "TAM BIET" -> "tam biet"
    [] u = "MOCHI" -> "mochi"
    [] u = "OI" -> "oi"
    [] OTHER -> u

ToLowerCase(t) == [i \in 1..Len(t) |-> LowerUnit(t[i])]

IsSpace(u) == u = " "

RECURSIVE TrimStart(_)
TrimStart(t) == IF t # <<>> /\ IsSpace(Head(t)) THEN TrimStart(Tail(t)) ELSE t

RECURSIVE TrimEnd(_)
TrimEnd(t) ==
  IF t # <<>> /\ IsSpace(t[Len(t)]) THEN TrimEnd(SubSeq(t, 1, Len(t) - 1)) ELSE t

\* String.prototype.trim
Trim(t) == TrimEnd(TrimStart(t))

\* String.prototype.includes
Includes(t, needle) ==
  \E i \in 0..(Len(t) - Len(needle)) : SubSeq(t, i + 1, i + Len(needle)) = needle

Max(a, b) == IF a >= b THEN a ELSE b

\* ------------------------------------------------------------------------
\* State
\* ------------------------------------------------------------------------
VARIABLES
  \* module-level state of the session service
  session, inputAudioContext, outputAudioContext, microphoneStream,
  scriptProcessor, isSpeaking, nextStartTime, audioSources,
  conversationHistory, isSuspended, deepSleepRequested,
  \* TRUE once startLiveSession has stored the App's callbacks
  registered,
  \* locals of each startLiveSession call, captured by its callbacks
  currentInputTranscription, currentOutputTranscription,
  \* the resources a startLiveSession call creates, by call
  connState, micState, inCtxState, outCtxState, procState,
  \* how often each resource was released
  releases,
  \* where each startLiveSession call stands, the stopLiveSession calls
  \* waiting in an await, the message handlers waiting for a search, the
  \* settle timers armed
  startPc, stopWait, pending, settleTimers,
  \* state of the App component
  mochiState, statusText, currentTranscription, isPowerSaving,
  \* last argument of the history callback
  publishedHistory,
  \* alarm service: the list, the next id, the timers armed with
  \* window.setTimeout, the speakAlarm calls waiting for their speech
  activeAlarms, nextAlarmId, alarmTimers, alarmSpeech,
  \* the rings so far, the cancelAlarm calls so far and the number of calls
  \* of the alarm service from outside the session
  rung, cancelCalls, nAlarmCalls,
  \* Date.now() and the audio clock
  now,
  \* calls and messages so far, and what the exploration may use
  nStops, nMsgs, scope,
  \* by connection: an enter_deep_sleep call arrived since the last
  \* turn-complete event
  turnRequest,
  \* the startLiveSession calls whose session met a fatal failure
  failed,
  \* by startLiveSession call: the calls whose session stopLiveSession had
  \* closed when this call began
  endedBefore,
  \* by startLiveSession call: the number of stopLiveSession calls made
  \* when this call began
  stopsAtStart,
  \* by output context: the latest end of the segments scheduled so far
  lastEnd,
  \* by startLiveSession call: the input context its script processor was
  \* created on
  procCtx,
  \* the chunks the script processors have captured and the frames handed
  \* to sendRealtimeInput, in order
  chunks, frames,
  \* state of the App component: a session was started and not stopped
  isSessionActive,
  \* one sample fed to the capture encoder, and what the decoder makes of
  \* its encoding
  sample, recovered,
  \* the weather cache and the number of getWeatherForLocation calls
  \* waiting for the remote answer
  weatherCache, weatherWait,
  \* the locations the lookups in flight ask for, and the location the
  \* cached entry was fetched for
  weatherPlace,
  \* the step just taken and the callbacks it invoked, in order
  last

vars == <<session, inputAudioContext, outputAudioContext, microphoneStream,
  scriptProcessor, isSpeaking, nextStartTime, audioSources,
  conversationHistory, isSuspended, deepSleepRequested, registered,
  currentInputTranscription, currentOutputTranscription,
  connState, micState, inCtxState, outCtxState, procState, releases,
  startPc, stopWait, pending, settleTimers,
  mochiState, statusText, currentTranscription, isPowerSaving,
  publishedHistory, activeAlarms, nextAlarmId, alarmTimers, alarmSpeech,
  rung, cancelCalls, nAlarmCalls, now, nStops, nMsgs, scope,
  turnRequest, failed, endedBefore, stopsAtStart, lastEnd, procCtx, chunks,
  frames, isSessionActive, sample, recovered,
  weatherCache, weatherWait, weatherPlace,
  last>>

\* ChatMessage | null: the null message is a record of its own
NoMessage == [speaker |-> "none", text |-> <<>>]
ChatMessage(speaker, text) == [speaker |-> speaker, text |-> text]

\* The state a segment works on, as one record
Cur ==
  [session |-> session, inputAudioContext |-> inputAudioContext,
   outputAudioContext |-> outputAudioContext,
   microphoneStream |-> microphoneStream, scriptProcessor |-> scriptProcessor,
   isSpeaking |-> isSpeaking, nextStartTime |-> nextStartTime,
   audioSources |-> audioSources, conversationHistory |-> conversationHistory,
   isSuspended |-> isSuspended, deepSleepRequested |-> deepSleepRequested,
   registered |-> registered,
   currentInputTranscription |-> currentInputTranscription,
   currentOutputTranscription |-> currentOutputTranscription,
   connState |-> connState, micState |-> micState, inCtxState |-> inCtxState,
   outCtxState |-> outCtxState, procState |-> procState, releases |-> releases,
   startPc |-> startPc, stopWait |-> stopWait, pending |-> pending,
   settleTimers |-> settleTimers,
   mochiState |-> mochiState, statusText |-> statusText,
   currentTranscription |-> currentTranscription, isPowerSaving |-> isPowerSaving,
   publishedHistory |-> publishedHistory,
   activeAlarms |-> activeAlarms, nextAlarmId |-> nextAlarmId,
   alarmTimers |-> alarmTimers, alarmSpeech |-> alarmSpeech,
   rung |-> rung, cancelCalls |-> cancelCalls, nAlarmCalls |-> nAlarmCalls,
   now |-> now, nStops |-> nStops, nMsgs |-> nMsgs,
   turnRequest |-> turnRequest, failed |-> failed, lastEnd |-> lastEnd,
   endedBefore |-> endedBefore, stopsAtStart |-> stopsAtStart,
   procCtx |-> procCtx, chunks |-> chunks, frames |-> frames,
   isSessionActive |-> isSessionActive,
   log |-> <<>>]

\* The record becomes the next state; op names the step
Commit(s, op) ==
  /\ session' = s.session
  /\ inputAudioContext' = s.inputAudioContext
  /\ outputAudioContext' = s.outputAudioContext
  /\ microphoneStream' = s.microphoneStream
  /\ scriptProcessor' = s.scriptProcessor
  /\ isSpeaking' = s.isSpeaking
  /\ nextStartTime' = s.nextStartTime
  /\ audioSources' = s.audioSources
  /\ conversationHistory' = s.conversationHistory
  /\ isSuspended' = s.isSuspended
  /\ deepSleepRequested' = s.deepSleepRequested
  /\ registered' = s.registered
  /\ currentInputTranscription' = s.currentInputTranscription
  /\ currentOutputTranscription' = s.currentOutputTranscription
  /\ connState' = s.connState
  /\ micState' = s.micState
  /\ inCtxState' = s.inCtxState
  /\ outCtxState' = s.outCtxState
  /\ procState' = s.procState
  /\ releases' = s.releases
  /\ startPc' = s.startPc
  /\ stopWait' = s.stopWait
  /\ pending' = s.pending
  /\ settleTimers' = s.settleTimers
  /\ mochiState' = s.mochiState
  /\ statusText' = s.statusText
  /\ currentTranscription' = s.currentTranscription
  /\ isPowerSaving' = s.isPowerSaving
  /\ publishedHistory' = s.publishedHistory
  /\ activeAlarms' = s.activeAlarms
  /\ nextAlarmId' = s.nextAlarmId
  /\ alarmTimers' = s.alarmTimers
  /\ alarmSpeech' = s.alarmSpeech
  /\ rung' = s.rung
  /\ cancelCalls' = s.cancelCalls
  /\ nAlarmCalls' = s.nAlarmCalls
  /\ now' = s.now
  /\ nStops' = s.nStops
  /\ nMsgs' = s.nMsgs
  /\ scope' = scope
  /\ turnRequest' = s.turnRequest
  /\ failed' = s.failed
  /\ endedBefore' = s.endedBefore
  /\ stopsAtStart' = s.stopsAtStart
  /\ lastEnd' = s.lastEnd
  /\ procCtx' = s.procCtx
  /\ chunks' = s.chunks
  /\ frames' = s.frames
  /\ isSessionActive' = s.isSessionActive
  /\ UNCHANGED <<sample, recovered, weatherCache, weatherWait, weatherPlace>>
  /\ last' = [op |-> op, log |-> s.log]

\* ------------------------------------------------------------------------
\* The App's callbacks
\* ------------------------------------------------------------------------
Logged(s, e) == [s EXCEPT !.log = Append(@, e)]

\* handleStateChange, and the effect that turns ENTERING_DEEP_SLEEP into
\* SLEEPING with power saving
handleStateChange(s, newState, newStatus) ==
  IF newState = "ENTERING_DEEP_SLEEP"
  THEN [s EXCEPT !.mochiState = "SLEEPING", !.statusText = "deep sleep",
                 !.isPowerSaving = TRUE]
  ELSE [s EXCEPT !.mochiState = newState, !.statusText = newStatus,
                 !.isPowerSaving =
                    IF newState \in {"LISTENING", "THINKING", "SPEAKING"}
                    THEN FALSE ELSE @]

\* onStateChange(state, status): the App's callback once registered, the
\* empty placeholder before
onStateChange(s, newState, newStatus) ==
  LET t == Logged(s, [k |-> "state", v |-> newState, status |-> newStatus,
                      suspended |-> s.isSuspended])
  IN IF s.registered THEN handleStateChange(t, newState, newStatus) ELSE t

\* onTranscriptionUpdate(message)
onTranscriptionUpdate(s, message) ==
  LET t == Logged(s, [k |-> "transcription", v |-> message,
                      suspended |-> s.isSuspended])
  IN IF s.registered THEN [t EXCEPT !.currentTranscription = message] ELSE t

\* onHistoryUpdate(history)
onHistoryUpdate(s, history) ==
  LET t == Logged(s, [k |-> "history", v |-> history])
  IN IF s.registered THEN [t EXCEPT !.publishedHistory = history] ELSE t

\* ------------------------------------------------------------------------
\* stopLiveSession, segment by segment
\* ------------------------------------------------------------------------
StopConts == [pc : {"in", "out"}, userName : BOOLEAN]

StopStatus(userName) == IF userName THEN "see you" ELSE "session ended"

\* a variant of StopFinish that leaves the displayed state as it was
StopFinishKeepsState(s, userName) ==
  LET s1 == [s EXCEPT !.audioSources = {}, !.isSpeaking = FALSE,
                      !.isSuspended = FALSE, !.deepSleepRequested = FALSE,
                      !.nextStartTime = 0]
      s2 == onTranscriptionUpdate(s1, NoMessage)
      s3 == onHistoryUpdate(s2, <<>>)
  IN Logged(s3, [k |-> "stopDone", userName |-> userName])

\* lines 584-596: stop the tracked sources, reset the flags, publish
StopFinish(s, userName) ==
  LET s1 == [s EXCEPT !.audioSources = {}, !.isSpeaking = FALSE,
                      !.isSuspended = FALSE, !.deepSleepRequested = FALSE,
                      !.nextStartTime = 0]
      s2 == onTranscriptionUpdate(s1, NoMessage)
      s3 == onHistoryUpdate(s2, <<>>)
      s4 == onStateChange(s3, "IDLE", StopStatus(userName))
  IN Logged(s4, [k |-> "stopDone", userName |-> userName])

\* lines 579-582 up to the await: AudioContext.close() rejects on a context
\* that is closed already, and the rejection ends the call
StopCloseOutput(s, userName) ==
  IF s.outputAudioContext # NULL
  THEN LET c == s.outputAudioContext
           s1 == [s EXCEPT !.releases.outCtx[c] = @ + 1]
       IN IF s.outCtxState[c] = "closed"
          THEN Logged(s1, [k |-> "stopRejected", at |-> "outputAudioContext"])
          ELSE [s1 EXCEPT !.outCtxState[c] = "closed",
                          !.stopWait[[pc |-> "out", userName |-> userName]] = @ + 1]
  ELSE StopFinish(s, userName)

\* line 581 after the await, then the rest
StopAfterOutput(s, userName) ==
  StopFinish([s EXCEPT !.outputAudioContext = NULL], userName)

\* lines 574-577 up to the await
StopCloseInput(s, userName) ==
  IF s.inputAudioContext # NULL
  THEN LET c == s.inputAudioContext
           s1 == [s EXCEPT !.releases.inCtx[c] = @ + 1]
       IN IF s.inCtxState[c] = "closed"
          THEN Logged(s1, [k |-> "stopRejected", at |-> "inputAudioContext"])
          ELSE [s1 EXCEPT !.inCtxState[c] = "closed",
                          !.stopWait[[pc |-> "in", userName |-> userName]] = @ + 1]
  ELSE StopCloseOutput(s, userName)

\* line 576 after the await, then the rest
StopAfterInput(s, userName) ==
  StopCloseOutput([s EXCEPT !.inputAudioContext = NULL], userName)

\* lines 558-572, then on to the contexts: the call as far as it runs
\* before it first waits
stopLiveSession(s, userName) ==
  LET s0 == Logged([s EXCEPT !.nStops = @ + 1],
                   [k |-> "stopCalled", userName |-> userName,
                    held |-> s.session # NULL \/ s.microphoneStream # NULL
                             \/ s.scriptProcessor # NULL
                             \/ s.inputAudioContext # NULL
                             \/ s.outputAudioContext # NULL])
      s1 == IF s0.session # NULL
            THEN [s0 EXCEPT !.connState[s0.session] =
                               IF @ \in {"connecting", "open"} THEN "closing" ELSE @,
                            !.releases.conn[s0.session] = @ + 1,
                            !.session = NULL]
            ELSE s0
      s2 == IF s1.microphoneStream # NULL
            THEN [s1 EXCEPT !.micState[s1.microphoneStream] = "stopped",
                            !.releases.mic[s1.microphoneStream] = @ + 1,
                            !.microphoneStream = NULL]
            ELSE s1
      s3 == IF s2.scriptProcessor # NULL
            THEN [s2 EXCEPT !.procState[s2.scriptProcessor] = "disconnected",
                            !.scriptProcessor = NULL]
            ELSE s2
  IN StopCloseInput(s3, userName)

\* the number of settle timers armed, over the calls up to the n-th
RECURSIVE Armed(_, _)
Armed(timers, n) == IF n = 0 THEN 0 ELSE timers[n] + Armed(timers, n - 1)

\* A step is taken while it stays within what the exploration may use
Step(s, op) ==
  /\ s.nStops <= scope.stops
  /\ s.nMsgs <= scope.msgs
  /\ Armed(s.settleTimers, MaxStarts) <= MaxTimers
  /\ Cardinality(s.pending) <= MaxPending
  /\ s.nextAlarmId <= MaxAlarms + 1
  /\ \A c \in Calls : /\ Len(s.currentInputTranscription[c]) <= MaxText
                       /\ Len(s.currentOutputTranscription[c]) <= MaxText
  /\ Commit(s, op)

\* the UI calls stopLiveSession(userName)
StopCall(userName) ==
  /\ nStops < scope.stops
  /\ Step(stopLiveSession(Cur, userName), "StopCall")

\* inputAudioContext.close() has resolved
StopInputClosed(k) ==
  /\ k.pc = "in"
  /\ stopWait[k] > 0
  /\ Step(StopAfterInput([Cur EXCEPT !.stopWait[k] = @ - 1], k.userName),
          "StopInputClosed")

\* outputAudioContext.close() has resolved
StopOutputClosed(k) ==
  /\ k.pc = "out"
  /\ stopWait[k] > 0
  /\ Step(StopAfterOutput([Cur EXCEPT !.stopWait[k] = @ - 1], k.userName),
          "StopOutputClosed")

\* ------------------------------------------------------------------------
\* startLiveSession, segment by segment, and the connection's callbacks
\* ------------------------------------------------------------------------
At(at, ctx) == [at |-> at, ctx |-> ctx]

\* wakeUp
wakeUp(s) ==
  IF s.session # NULL /\ s.isSuspended
  THEN onStateChange(onTranscriptionUpdate([s EXCEPT !.isSuspended = FALSE], NoMessage),
                     "LISTENING", "listening")
  ELSE s

\* wakeUpMochi, called by the App; without a suspended session it does nothing
WakeUpMochi ==
  /\ session # NULL
  /\ isSuspended
  /\ Step(wakeUp(Cur), "WakeUpMochi")

\* a fatal failure of the session of call c is being handled
Fatal(s, c) == Logged([s EXCEPT !.failed = @ \cup {c}], [k |-> "fatal", c |-> c])

\* lines 550-555: the catch of startLiveSession
StartFailed(s, c) ==
  stopLiveSession(onStateChange(Fatal([s EXCEPT !.startPc[c] = At("done", NULL)], c),
                                "ERROR", "cannot start"), FALSE)

\* lines 387-390: reset the queue, ask for the connection
StartConnect(s, c) ==
  [s EXCEPT !.nextStartTime = 0, !.audioSources = {},
            !.connState[c] = "connecting", !.startPc[c] = At("awaitConnect", NULL)]

\* lines 383-385: a null outputAudioContext makes the read of its state throw
StartResumeOutput(s, c) ==
  IF s.outputAudioContext = NULL THEN StartFailed(s, c)
  ELSE IF s.outCtxState[s.outputAudioContext] = "suspended"
  THEN [s EXCEPT !.startPc[c] = At("awaitResumeOut", s.outputAudioContext)]
  ELSE StartConnect(s, c)

\* lines 324-376: startLiveSession, as its c-th call that passes the guard,
\* up to the await of getUserMedia
startLiveSession(s, c) ==
  IF s.session # NULL THEN s
  ELSE LET s1 == [s EXCEPT !.registered = TRUE, !.conversationHistory = <<>>,
                           !.isSuspended = FALSE, !.deepSleepRequested = FALSE,
                           !.currentInputTranscription[c] = <<>>,
                           !.currentOutputTranscription[c] = <<>>,
                           !.startPc[c] = At("awaitMic", NULL),
                           !.endedBefore[c] =
                              {d \in Calls : s.releases.conn[d] > 0},
                           !.stopsAtStart[c] = s.nStops]
           s2 == Logged(s1, [k |-> "startBegun", c |-> c])
       IN onStateChange(s2, "LOADING", "starting")

\* call c is the next call of startLiveSession to pass the guard
NextCall(c) ==
  /\ c <= scope.starts
  /\ startPc[c].at = "idle"
  /\ \A d \in Calls : d < c => startPc[d].at # "idle"

\* startLiveSession is called while no session is stored
StartCall(c) ==
  /\ NextCall(c)
  /\ session = NULL
  /\ Step(startLiveSession(Cur, c), "StartCall")

\* lines 376-382: getUserMedia has resolved; the new contexts are suspended
\* when the page may not play audio yet
StartMicGranted(c, suspended) ==
  /\ startPc[c].at = "awaitMic"
  /\ suspended \in scope.suspended
  /\ LET st == IF suspended THEN "suspended" ELSE "running"
         s1 == [Cur EXCEPT !.micState[c] = "live", !.microphoneStream = c,
                           !.inCtxState[c] = st, !.inputAudioContext = c,
                           !.outCtxState[c] = st, !.outputAudioContext = c]
     IN Step(IF suspended THEN [s1 EXCEPT !.startPc[c] = At("awaitResumeIn", c)]
                          ELSE StartResumeOutput(s1, c),
             "StartMicGranted")

\* getUserMedia has rejected
StartMicDenied(c) ==
  /\ startPc[c].at = "awaitMic"
  /\ Step(StartFailed(Cur, c), "StartMicDenied")

\* inputAudioContext.resume() has settled: it rejects on a closed context
StartInputResumed(c) ==
  /\ startPc[c].at = "awaitResumeIn"
  /\ LET x == startPc[c].ctx
     IN Step(IF inCtxState[x] = "closed" THEN StartFailed(Cur, c)
             ELSE StartResumeOutput([Cur EXCEPT !.inCtxState[x] = "running"], c),
             "StartInputResumed")

\* outputAudioContext.resume() has settled
StartOutputResumed(c) ==
  /\ startPc[c].at = "awaitResumeOut"
  /\ LET x == startPc[c].ctx
     IN Step(IF outCtxState[x] = "closed" THEN StartFailed(Cur, c)
             ELSE StartConnect([Cur EXCEPT !.outCtxState[x] = "running"], c),
             "StartOutputResumed")

\* lines 401-420: onopen
onopen(s, c) ==
  LET s1 == onStateChange(s, "LISTENING", "")
  IN IF s1.inputAudioContext = NULL \/ s1.microphoneStream = NULL
     THEN stopLiveSession(onStateChange(Fatal(s1, c), "ERROR",
                                        "cannot set up microphone"), FALSE)
     ELSE [s1 EXCEPT !.scriptProcessor = c, !.procState[c] = "connected",
                     !.procCtx[c] = s1.inputAudioContext]

\* The connection opens: onopen runs, the promise of connect resolves and
\* line 548 stores the session
ConnOpen(c) ==
  /\ startPc[c].at = "awaitConnect"
  /\ connState[c] = "connecting"
  /\ LET s1 == onopen([Cur EXCEPT !.connState[c] = "open"], c)
     IN Step([s1 EXCEPT !.session = c, !.startPc[c] = At("done", NULL)], "ConnOpen")

\* connect rejects
ConnectRejected(c) ==
  /\ startPc[c].at = "awaitConnect"
  /\ connState[c] = "connecting"
  /\ Step(StartFailed([Cur EXCEPT !.connState[c] = "failed"], c), "ConnectRejected")

\* lines 536-540: onerror; the transport closes after an error
OnError(c) ==
  /\ connState[c] = "open"
  /\ LET s1 == onStateChange(Fatal(Cur, c), "ERROR", "connection error")
         s2 == stopLiveSession(s1, FALSE)
     IN Step([s2 EXCEPT !.connState[c] = "closing"], "OnError")

\* lines 541-544: onclose, after the server's close or after session.close()
OnClose(c) ==
  /\ connState[c] \in {"open", "closing"}
  /\ Step(onStateChange([Cur EXCEPT !.connState[c] = "closed"], "IDLE", "session ended"),
          "OnClose")

\* ------------------------------------------------------------------------
\* The App component: the double click on Mochi
\* ------------------------------------------------------------------------
\* resetInactivityTimer: the screen wakes at once
resetInactivityTimer(s) == [s EXCEPT !.isPowerSaving = FALSE]

\* startSession, with a user profile; c is the call of startLiveSession
startSession(s, c) ==
  IF s.isSessionActive THEN s
  ELSE startLiveSession([s EXCEPT !.isSessionActive = TRUE,
                                  !.currentTranscription = NoMessage], c)

\* stopSession, with a user profile
stopSession(s) ==
  IF ~s.isSessionActive THEN s
  ELSE [stopLiveSession(s, TRUE) EXCEPT !.isSessionActive = FALSE]

\* handleMochiDoubleClick
handleMochiDoubleClick(s, c) ==
  LET s1 == Logged(resetInactivityTimer(s),
                   [k |-> "doubleClick", active |-> s.isSessionActive,
                    state |-> s.mochiState, session |-> s.session,
                    suspended |-> s.isSuspended])
  IN IF ~s1.isSessionActive THEN startSession(s1, c)
     ELSE IF s1.mochiState = "SLEEPING" THEN wakeUp(s1)
     ELSE stopSession(s1)

\* The user double-clicks Mochi; c is the call of startLiveSession the click
\* makes if it makes one
DoubleClick ==
  \E c \in Calls :
    /\ IF isSessionActive THEN c = 1 ELSE NextCall(c)
    /\ Step(handleMochiDoubleClick(Cur, c), "DoubleClick")

\* ------------------------------------------------------------------------
\* Audio codec.  A sample k stands for the number k / (SampleGrid * PcmScale)
\* ------------------------------------------------------------------------
PcmScale == 32768
NoSample == <<>>

\* the whole part of k / SampleGrid, rounded toward zero: data[i] * 32768
\* as the conversion of a store into an Int16Array starts
Truncate(k) == IF k >= 0 THEN k \div SampleGrid ELSE -((-k) \div SampleGrid)

\* the conversion ends modulo 2^16, into -32768..32767
ToInt16(n) == ((n + PcmScale) % (2 * PcmScale)) - PcmScale

\* new Uint8Array(int16.buffer): the two bytes of a slot, low byte first
Bytes(v) ==
  LET u == v % (2 * PcmScale) IN <<u % 256, u \div 256>>

\* new Int16Array(data.buffer): the slot of two bytes
FromBytes(b) == ToInt16(b[1] + 256 * b[2])

\* lines 79-89: createBlob, for one sample
createBlob(k) == Bytes(ToInt16(Truncate(k)))

\* lines 51-68: decodeAudioData, for one sample: the quotient by 32768, as
\* a sample
decodeAudioData(b) == SampleGrid * FromBytes(b)

Abs(n) == IF n >= 0 THEN n ELSE -n

\* the samples next to -1, to 0 and to 1, these included
Samples ==
  {k \in -(SampleGrid * PcmScale)..(SampleGrid * PcmScale) :
     \/ Abs(k) <= SampleBand
     \/ Abs(k) >= SampleGrid * PcmScale - SampleBand}

\* ------------------------------------------------------------------------
\* Weather lookup.  A text is a sequence of units as above; the unit ";" is
\* the separator of the answer's fields
\* ------------------------------------------------------------------------
\* the cache holds no entry or one; parseFloat gives no number or one
NoCache == <<>>
NaN == <<>>

\* String.prototype.split(';')
RECURSIVE Split(_)
Split(t) ==
  IF \E i \in 1..Len(t) : t[i] = ";"
  THEN LET i == CHOOSE k \in 1..Len(t) :
                 t[k] = ";" /\ \A j \in 1..(k - 1) : t[j] # ";"
       IN <<SubSeq(t, 1, i - 1)>> \o Split(SubSeq(t, i + 1, Len(t)))
  ELSE <<t>>

\* String.prototype.toUpperCase, unit by unit
UpperUnit(u) == IF u \in {"null", "Null"} THEN "NULL" ELSE u
ToUpperCase(t) == [i \in 1..Len(t) |-> UpperUnit(t[i])]

\* the units that are the text of a number, and their numbers
NumberUnits == {"28", "-3"}
NumberOf(u) == IF u = "28" THEN 28 ELSE -3

\* parseFloat: white space is skipped, then the longest text of a number
\* the string begins with is read and the rest is ignored; NaN when the
\* string begins with no number
ParseFloat(t) ==
  LET u == TrimStart(t)
  IN IF u # <<>> /\ Head(u) \in NumberUnits THEN <<NumberOf(Head(u))>> ELSE NaN

WeatherData(temperature, condition, emoji) ==
  [temperature |-> temperature, condition |-> condition, emoji |-> emoji]

\* lines 188-209 of getWeatherForLocation: the answer is parsed into the
\* data, or into the failure thrown inside the try
ParseWeather(text) ==
  LET parts == Split(Trim(text))
  IN IF Len(parts) # 3 THEN [ok |-> FALSE, error |-> "unexpected format"]
     ELSE IF ToUpperCase(parts[1]) = <<"NULL">>
     THEN [ok |-> FALSE, error |-> "not found"]
     ELSE LET temperature == ParseFloat(parts[1])
              condition == Trim(parts[2])
              emoji == Trim(parts[3])
          IN IF temperature = NaN \/ condition = <<>> \/ emoji = <<>>
             THEN [ok |-> FALSE, error |-> "invalid data"]
             ELSE [ok |-> TRUE,
                   data |-> WeatherData(temperature[1], condition, emoji)]

\* lines 215-228: what the catch throws to the caller
WeatherFailure(error) ==
  IF error \in {"unexpected format", "invalid data"}
  THEN "cannot read the forecast"
  ELSE error

\* everything but the weather cache, the lookups in flight and the step
\* just taken
NotWeather ==
  <<session, inputAudioContext, outputAudioContext, microphoneStream,
    scriptProcessor, isSpeaking, nextStartTime, audioSources,
    conversationHistory, isSuspended, deepSleepRequested, registered,
    currentInputTranscription, currentOutputTranscription,
    connState, micState, inCtxState, outCtxState, procState, releases,
    startPc, stopWait, pending, settleTimers,
    mochiState, statusText, currentTranscription, isPowerSaving,
    publishedHistory, activeAlarms, nextAlarmId, alarmTimers, alarmSpeech,
    rung, cancelCalls, nAlarmCalls, now, nStops, nMsgs, scope,
    turnRequest, failed, endedBefore, stopsAtStart, lastEnd, procCtx, chunks,
    frames, isSessionActive, sample, recovered>>

\* the coordinates a lookup is made for
Locations == {"here", "there"}
NoPlace == "nowhere"

\* lines 161-186: getWeatherForLocation(latitude, longitude) up to its
\* await: the cached data while the entry is valid, else the request
WeatherCall(loc) ==
  /\ loc \in scope.locations
  /\ UNCHANGED NotWeather
  /\ IF weatherCache # NoCache /\ now < weatherCache[1].expiry
     THEN /\ UNCHANGED <<weatherCache, weatherWait, weatherPlace>>
          /\ last' = [op |-> "WeatherCall",
                      log |-> <<[k |-> "weatherReturned", cached |-> TRUE,
                                 data |-> weatherCache[1].data,
                                 loc |-> loc, fetchedFor |-> weatherPlace.cached,
                                 at |-> now, expiry |-> weatherCache[1].expiry]>>]
     ELSE /\ weatherWait < MaxLookups
          /\ weatherWait' = weatherWait + 1
          /\ weatherPlace' = [weatherPlace EXCEPT !.asked[loc] = @ + 1]
          /\ UNCHANGED weatherCache
          /\ last' = [op |-> "WeatherCall",
                      log |-> <<[k |-> "weatherRequested", loc |-> loc,
                                 at |-> now]>>]

\* lines 188-213: the answer to the lookup for loc has come
WeatherAnswered(text, loc) ==
  /\ weatherWait > 0
  /\ weatherPlace.asked[loc] > 0
  /\ weatherWait' = weatherWait - 1
  /\ UNCHANGED NotWeather
  /\ LET r == ParseWeather(text)
     IN IF r.ok
        THEN /\ weatherCache' = <<[data |-> r.data,
                                   expiry |-> now + WeatherCacheDuration]>>
             /\ weatherPlace' = [weatherPlace EXCEPT !.asked[loc] = @ - 1,
                                                     !.cached = loc]
             /\ last' = [op |-> "WeatherAnswered",
                         log |-> <<[k |-> "weatherAnswered", text |-> text,
                                    before |-> weatherCache,
                                    after |-> weatherCache'],
                                   [k |-> "weatherReturned", cached |-> FALSE,
                                    data |-> r.data,
                                    loc |-> loc, fetchedFor |-> loc,
                                    at |-> now,
                                    expiry |-> now + WeatherCacheDuration]>>]
        ELSE /\ UNCHANGED weatherCache
             /\ weatherPlace' = [weatherPlace EXCEPT !.asked[loc] = @ - 1]
             /\ last' = [op |-> "WeatherAnswered",
                         log |-> <<[k |-> "weatherAnswered", text |-> text,
                                    before |-> weatherCache,
                                    after |-> weatherCache],
                                   [k |-> "weatherFailed",
                                    error |-> WeatherFailure(r.error)]>>]

\* the request for loc has failed: the catch throws the error on
WeatherRejected(loc) ==
  /\ weatherWait > 0
  /\ weatherPlace.asked[loc] > 0
  /\ weatherWait' = weatherWait - 1
  /\ weatherPlace' = [weatherPlace EXCEPT !.asked[loc] = @ - 1]
  /\ UNCHANGED NotWeather
  /\ UNCHANGED weatherCache
  /\ last' = [op |-> "WeatherRejected",
              log |-> <<[k |-> "weatherFailed", error |-> "request failed"]>>]

\* ------------------------------------------------------------------------
\* Capture: the script processor of a session hands each chunk of the
\* microphone to onaudioprocess
\* ------------------------------------------------------------------------
Chunk(c, data, speaking, suspended) ==
  [c |-> c, data |-> data, speaking |-> speaking, suspended |-> suspended]

\* the argument of sendRealtimeInput for the n-th chunk, on the connection
\* of call c
Frame(c, n, data) == [c |-> c, n |-> n, media |-> createBlob(data)]

\* a variant of onaudioprocess that does not look at the speaking flag
onaudioprocessUngated(s, c, data) ==
  LET n == Len(s.chunks) + 1
      s1 == [s EXCEPT !.chunks = Append(@, Chunk(c, data, s.isSpeaking, s.isSuspended))]
  IN Logged([s1 EXCEPT !.frames = Append(@, Frame(c, n, data))],
            [k |-> "frame", c |-> c, n |-> n,
             delivered |-> s.connState[c] = "open"])

\* lines 406-411: onaudioprocess of the processor of call c
onaudioprocess(s, c, data) ==
  LET n == Len(s.chunks) + 1
      s1 == [s EXCEPT !.chunks = Append(@, Chunk(c, data, s.isSpeaking, s.isSuspended))]
  IN IF s.isSpeaking
     THEN Logged(s1, [k |-> "chunkSkipped", c |-> c, n |-> n])
     ELSE Logged([s1 EXCEPT !.frames = Append(@, Frame(c, n, data))],
                 [k |-> "frame", c |-> c, n |-> n,
                  delivered |-> s.connState[c] = "open"])

\* The processor of call c, connected and on a running context, has a chunk
OnAudioProcess(c, data) ==
  /\ procState[c] = "connected"
  /\ procCtx[c] # NULL
  /\ inCtxState[procCtx[c]] = "running"
  /\ Len(chunks) < MaxChunks
  /\ Step(onaudioprocess(Cur, c, data), "OnAudioProcess")

\* ------------------------------------------------------------------------
\* Alarm service
\* ------------------------------------------------------------------------
\* window.setTimeout takes its delay as a 32-bit integer: the conversion
\* wraps, and a negative delay counts as 0
ToLong(d) == ((d + TimerRange \div 2) % TimerRange) - TimerRange \div 2
Timeout(delay) == Max(0, ToLong(delay))

\* an alarm of the list and the timer armed for it; the timer's callback
\* holds the id and the label, and the id stands for the timer id as well
Alarm(id, time, label) == [id |-> id, time |-> time, label |-> label]
AlarmTimer(id, label, due) == [id |-> id, label |-> label, due |-> due]

\* what a setAlarm call can see change
AlarmState(s) ==
  [alarms |-> s.activeAlarms, nextId |-> s.nextAlarmId, timers |-> s.alarmTimers]

\* a variant of setAlarm that takes the id before it looks at the time
setAlarmIdFirst(s, time, label) ==
  LET delay == time - s.now
      id == s.nextAlarmId
      r == IF delay < 0 THEN [s EXCEPT !.nextAlarmId = @ + 1]
           ELSE [s EXCEPT !.nextAlarmId = @ + 1,
                          !.alarmTimers = @ \cup {AlarmTimer(id, label,
                                                             s.now + Timeout(delay))},
                          !.activeAlarms = Append(@, Alarm(id, time, label))]
  IN Logged(r, [k |-> "setAlarm", time |-> time, label |-> label,
                delay |-> delay, before |-> AlarmState(s),
                after |-> AlarmState(r), returned |-> NULL])

\* setAlarm(time, label): the function returns nothing on either path
setAlarm(s, time, label) ==
  LET delay == time - s.now
      id == s.nextAlarmId
      r == IF delay < 0 THEN s
           ELSE [s EXCEPT !.nextAlarmId = @ + 1,
                          !.alarmTimers = @ \cup {AlarmTimer(id, label,
                                                             s.now + Timeout(delay))},
                          !.activeAlarms = Append(@, Alarm(id, time, label))]
  IN Logged(r, [k |-> "setAlarm", time |-> time, label |-> label,
                delay |-> delay, before |-> AlarmState(s),
                after |-> AlarmState(r), returned |-> NULL])

\* Array.prototype.findIndex on the id, counting from 0; -1: not found
FindIndex(alarms, id) ==
  IF \E i \in 1..Len(alarms) : alarms[i].id = id
  THEN (CHOOSE i \in 1..Len(alarms) :
          /\ alarms[i].id = id
          /\ \A j \in 1..(i - 1) : alarms[j].id # id) - 1
  ELSE -1

\* Array.prototype.splice(index, 1): a negative index counts from the end
Splice(alarms, index) ==
  LET at == IF index < 0 THEN Max(Len(alarms) + index, 0) ELSE index
  IN [i \in 1..(Len(alarms) - (IF at < Len(alarms) THEN 1 ELSE 0)) |->
        IF i <= at THEN alarms[i] ELSE alarms[i + 1]]

\* clearTimeout(timerId)
ClearTimeout(timers, id) == {t \in timers : t.id # id}

\* a variant of cancelAlarm without the test of the index
cancelAlarmAnyIndex(s, id) ==
  LET index == FindIndex(s.activeAlarms, id)
  IN IF s.activeAlarms # <<>>
     THEN [s EXCEPT !.alarmTimers =
                       IF index # -1 THEN ClearTimeout(@, s.activeAlarms[index + 1].id)
                       ELSE @,
                    !.activeAlarms = Splice(@, index)]
     ELSE s

\* lines 268-274: cancelAlarm(id)
cancelAlarm(s, id) ==
  LET index == FindIndex(s.activeAlarms, id)
  IN IF index # -1
     THEN [s EXCEPT !.alarmTimers = ClearTimeout(@, s.activeAlarms[index + 1].id),
                    !.activeAlarms = Splice(@, index)]
     ELSE s

\* the callbacks the App registers with the alarm service: the ring
\* callback wakes the screen and shows the label, the state callback sets
\* the state and nothing else; a state of activity wakes the screen
onAlarmRing(s, label) ==
  [s EXCEPT !.isPowerSaving = FALSE, !.statusText = <<"reminder", label>>]

onAlarmStateChange(s, newState) ==
  Logged([s EXCEPT !.mochiState = newState,
                   !.isPowerSaving = IF newState = "SPEAKING" THEN FALSE ELSE @],
         [k |-> "alarmState", v |-> newState])

\* lines 200-206: speakAlarm up to the await of the speech
speakAlarm(s, label) ==
  [onAlarmStateChange(s, "SPEAKING") EXCEPT !.alarmSpeech = @ + 1]

\* lines 252-262: the callback of the timer of an alarm
AlarmCallback(s, t) ==
  LET index == FindIndex(s.activeAlarms, t.id)
      s1 == Logged([onAlarmRing(s, t.label) EXCEPT
                      !.rung = Append(@, [id |-> t.id, label |-> t.label,
                                          at |-> s.now,
                                          listed |-> SelectSeq(s.activeAlarms,
                                                       LAMBDA a : a.id = t.id)])],
                   [k |-> "ring", id |-> t.id, label |-> t.label])
      s2 == speakAlarm(s1, t.label)
  IN IF index # -1 THEN [s2 EXCEPT !.activeAlarms = Splice(@, index)] ELSE s2

\* a timer of the alarm service fires, at its time or later
AlarmFires(t) ==
  /\ t \in alarmTimers
  /\ now >= t.due
  /\ Step(AlarmCallback([Cur EXCEPT !.alarmTimers = @ \ {t}], t), "AlarmFires")

\* setAlarm called from outside the session
SetAlarmCall(delay, label) ==
  /\ nAlarmCalls < scope.alarmCalls
  /\ Step(setAlarm([Cur EXCEPT !.nAlarmCalls = @ + 1], now + delay, label),
          "SetAlarmCall")

\* cancelAlarm called from outside the session
CancelAlarmCall(id) ==
  /\ nAlarmCalls < scope.alarmCalls
  /\ LET s1 == [Cur EXCEPT !.nAlarmCalls = @ + 1]
         s2 == cancelAlarm(s1, id)
     IN Step(Logged([s2 EXCEPT !.cancelCalls =
                                  Append(@, [id |-> id, at |-> now,
                                             assigned |-> id < nextAlarmId,
                                             removed |-> Len(s2.activeAlarms)
                                                         < Len(activeAlarms)])],
                    [k |-> "cancelAlarm", id |-> id, before |-> AlarmState(s1),
                     after |-> AlarmState(s2)]),
             "CancelAlarmCall")

\* lines 207-238: the rest of speakAlarm: the speech has been played, or
\* could not be made; either way the state goes back to IDLE
AlarmSpoken ==
  /\ alarmSpeech > 0
  /\ Step(onAlarmStateChange([Cur EXCEPT !.alarmSpeech = @ - 1], "IDLE"), "AlarmSpoken")

\* ------------------------------------------------------------------------
\* onmessage
\* ------------------------------------------------------------------------
\* A LiveServerMessage: the function calls of toolCall, the duration of the
\* audio of serverContent (0: none), the transcription texts (empty: none)
\* and the two flags
Message(toolCalls, audio, input, output, interrupted, turnComplete) ==
  [toolCalls |-> toolCalls, audio |-> audio, input |-> input, output |-> output,
   interrupted |-> interrupted, turnComplete |-> turnComplete]

\* A function call: valid says that the arguments the code tests for are
\* there (a query; a label and a numeric delay_minutes); args says that the
\* call has an args object at all
FunctionCall(name, valid, delay) ==
  [name |-> name, valid |-> valid, delay |-> delay, args |-> TRUE, label |-> "note"]

\* A function call without args
BareCall(name) ==
  [name |-> name, valid |-> FALSE, delay |-> 0, args |-> FALSE, label |-> "note"]

\* lines 438-440: the response goes to the connection of this handler
sendToolResponse(s, c, i, fc, result) ==
  Logged(s, [k |-> "toolResponse", c |-> c, id |-> i, name |-> fc.name,
             result |-> result, delivered |-> s.connState[c] = "open"])

\* lines 486-497
Interrupted(s, c) ==
  LET s1 == [s EXCEPT !.audioSources = {}, !.nextStartTime = 0, !.isSpeaking = FALSE,
                      !.currentInputTranscription[c] = <<>>,
                      !.currentOutputTranscription[c] = <<>>]
      s2 == onTranscriptionUpdate(s1, NoMessage)
      s3 == IF s2.session # NULL THEN onStateChange(s2, "LISTENING", "") ELSE s2
  IN Logged(s3, [k |-> "interrupted", c |-> c,
                 stopped |-> Cardinality(s.audioSources)])

IsGoodbye(finalInput) ==
  Includes(finalInput, FarewellVi) \/ Includes(finalInput, FarewellEn)

\* a variant of TurnComplete that looks for the farewell before the deep-sleep
\* flag
TurnCompleteFarewellFirst(s, c) ==
  LET finalInput == ToLowerCase(Trim(s.currentInputTranscription[c]))
      finalOutput == Trim(s.currentOutputTranscription[c])
      h1 == IF finalInput # <<>>
            THEN Append(s.conversationHistory, ChatMessage("user", finalInput))
            ELSE s.conversationHistory
      h2 == IF finalOutput # <<>>
            THEN Append(h1, ChatMessage("mochi", finalOutput))
            ELSE h1
      s1 == [s EXCEPT !.conversationHistory = h2]
      s2 == IF finalInput # <<>> \/ finalOutput # <<>>
            THEN onHistoryUpdate(s1, h2) ELSE s1
      isGoodbye == IsGoodbye(finalInput)
      s3 == Logged([s2 EXCEPT !.currentInputTranscription[c] = <<>>,
                              !.currentOutputTranscription[c] = <<>>,
                              !.isSpeaking = FALSE],
                   [k |-> "turnComplete", c |-> c, goodbye |-> isGoodbye,
                    deepSleep |-> s.deepSleepRequested,
                    requested |-> s.turnRequest[c]])
  IN IF isGoodbye
     THEN onTranscriptionUpdate(
            onStateChange([s3 EXCEPT !.isSuspended = TRUE], "SLEEPING", "resting"),
            NoMessage)
     ELSE IF s3.deepSleepRequested
     THEN onStateChange([s3 EXCEPT !.deepSleepRequested = FALSE],
                        "ENTERING_DEEP_SLEEP", "")
     ELSE LET s4 == IF finalOutput # <<>> THEN onStateChange(s3, "IDLE", "") ELSE s3
          IN [s4 EXCEPT !.settleTimers[c] = @ + 1]

\* a variant of TurnComplete that leaves the displayed transcription after a
\* farewell
TurnCompleteKeepsTranscription(s, c) ==
  LET finalInput == ToLowerCase(Trim(s.currentInputTranscription[c]))
      finalOutput == Trim(s.currentOutputTranscription[c])
      h1 == IF finalInput # <<>>
            THEN Append(s.conversationHistory, ChatMessage("user", finalInput))
            ELSE s.conversationHistory
      h2 == IF finalOutput # <<>>
            THEN Append(h1, ChatMessage("mochi", finalOutput))
            ELSE h1
      s1 == [s EXCEPT !.conversationHistory = h2]
      s2 == IF finalInput # <<>> \/ finalOutput # <<>>
            THEN onHistoryUpdate(s1, h2) ELSE s1
      isGoodbye == IsGoodbye(finalInput)
      s3 == Logged([s2 EXCEPT !.currentInputTranscription[c] = <<>>,
                              !.currentOutputTranscription[c] = <<>>,
                              !.isSpeaking = FALSE],
                   [k |-> "turnComplete", c |-> c, goodbye |-> isGoodbye,
                    deepSleep |-> s.deepSleepRequested,
                    requested |-> s.turnRequest[c]])
  IN IF s3.deepSleepRequested
     THEN onStateChange([s3 EXCEPT !.deepSleepRequested = FALSE],
                        "ENTERING_DEEP_SLEEP", "")
     ELSE IF isGoodbye
     THEN onStateChange([s3 EXCEPT !.isSuspended = TRUE], "SLEEPING", "resting")
     ELSE LET s4 == IF finalOutput # <<>> THEN onStateChange(s3, "IDLE", "") ELSE s3
          IN [s4 EXCEPT !.settleTimers[c] = @ + 1]

\* lines 499-534
TurnComplete(s, c) ==
  LET finalInput == ToLowerCase(Trim(s.currentInputTranscription[c]))
      finalOutput == Trim(s.currentOutputTranscription[c])
      h1 == IF finalInput # <<>>
            THEN Append(s.conversationHistory, ChatMessage("user", finalInput))
            ELSE s.conversationHistory
      h2 == IF finalOutput # <<>>
            THEN Append(h1, ChatMessage("mochi", finalOutput))
            ELSE h1
      s1 == [s EXCEPT !.conversationHistory = h2]
      s2 == IF finalInput # <<>> \/ finalOutput # <<>>
            THEN onHistoryUpdate(s1, h2) ELSE s1
      isGoodbye == IsGoodbye(finalInput)
      s3 == Logged([s2 EXCEPT !.currentInputTranscription[c] = <<>>,
                              !.currentOutputTranscription[c] = <<>>,
                              !.isSpeaking = FALSE],
                   [k |-> "turnComplete", c |-> c, goodbye |-> isGoodbye,
                    deepSleep |-> s.deepSleepRequested,
                    requested |-> s.turnRequest[c]])
  IN IF s3.deepSleepRequested
     THEN onStateChange([s3 EXCEPT !.deepSleepRequested = FALSE],
                        "ENTERING_DEEP_SLEEP", "")
     ELSE IF isGoodbye
     THEN onTranscriptionUpdate(
            onStateChange([s3 EXCEPT !.isSuspended = TRUE], "SLEEPING", "resting"),
            NoMessage)
     ELSE LET s4 == IF finalOutput # <<>> THEN onStateChange(s3, "IDLE", "") ELSE s3
          IN [s4 EXCEPT !.settleTimers[c] = @ + 1]

\* a variant of Audio that starts every segment at the time of the clock
AudioAtClock(s, m) ==
  IF m.audio > 0 /\ s.outputAudioContext # NULL /\ ~s.isSuspended
  THEN LET s1 == IF ~s.isSpeaking
                 THEN onStateChange(
                        [onTranscriptionUpdate(s, NoMessage) EXCEPT !.isSpeaking = TRUE],
                        "SPEAKING", "")
                 ELSE s
           start == s1.now
           ctx == s1.outputAudioContext
       IN Logged([s1 EXCEPT !.nextStartTime = start + m.audio,
                            !.audioSources = @ \cup {[ctx |-> ctx, start |-> start,
                                                      duration |-> m.audio]},
                            !.lastEnd[ctx] = Max(@, start + m.audio)],
                 [k |-> "scheduled", ctx |-> ctx, start |-> start,
                  duration |-> m.audio, tracked |-> s.audioSources,
                  after |-> s.lastEnd[ctx]])
  ELSE s

\* a variant of Audio that plays whether or not the session is suspended
AudioWhileSuspended(s, m) ==
  IF m.audio > 0 /\ s.outputAudioContext # NULL
  THEN LET s1 == IF ~s.isSpeaking
                 THEN onStateChange(
                        [onTranscriptionUpdate(s, NoMessage) EXCEPT !.isSpeaking = TRUE],
                        "SPEAKING", "")
                 ELSE s
           start == Max(s1.nextStartTime, s1.now)
           ctx == s1.outputAudioContext
       IN Logged([s1 EXCEPT !.nextStartTime = start + m.audio,
                            !.audioSources = @ \cup {[ctx |-> ctx, start |-> start,
                                                      duration |-> m.audio]},
                            !.lastEnd[ctx] = Max(@, start + m.audio)],
                 [k |-> "scheduled", ctx |-> ctx, start |-> start,
                  duration |-> m.audio, tracked |-> s.audioSources,
                  after |-> s.lastEnd[ctx]])
  ELSE s

\* lines 444-462: the audio of the message
Audio(s, m) ==
  IF m.audio > 0 /\ s.outputAudioContext # NULL /\ ~s.isSuspended
  THEN LET s1 == IF ~s.isSpeaking
                 THEN onStateChange(
                        [onTranscriptionUpdate(s, NoMessage) EXCEPT !.isSpeaking = TRUE],
                        "SPEAKING", "")
                 ELSE s
           start == Max(s1.nextStartTime, s1.now)
           ctx == s1.outputAudioContext
       IN Logged([s1 EXCEPT !.nextStartTime = start + m.audio,
                            !.audioSources = @ \cup {[ctx |-> ctx, start |-> start,
                                                      duration |-> m.audio]},
                            !.lastEnd[ctx] = Max(@, start + m.audio)],
                 [k |-> "scheduled", ctx |-> ctx, start |-> start,
                  duration |-> m.audio, tracked |-> s.audioSources,
                  after |-> s.lastEnd[ctx]])
  ELSE s

\* a variant of InputTranscription that publishes the text whether or not
\* the session is suspended
InputTranscriptionAlways(s, c, m) ==
  IF m.input # <<>>
  THEN LET s1 == [s EXCEPT !.currentInputTranscription[c] = @ \o m.input]
           text == s1.currentInputTranscription[c]
           s2 == onTranscriptionUpdate(s1, ChatMessage("user", text))
       IN IF s1.isSuspended /\ Includes(ToLowerCase(text), WakePhrase)
          THEN [wakeUp(s2) EXCEPT !.currentInputTranscription[c] = <<>>]
          ELSE s2
  ELSE s

\* lines 464-474
InputTranscription(s, c, m) ==
  IF m.input # <<>>
  THEN LET s1 == [s EXCEPT !.currentInputTranscription[c] = @ \o m.input]
           text == s1.currentInputTranscription[c]
       IN IF s1.isSuspended
          THEN IF Includes(ToLowerCase(text), WakePhrase)
               THEN [wakeUp(s1) EXCEPT !.currentInputTranscription[c] = <<>>]
               ELSE s1
          ELSE onTranscriptionUpdate(s1, ChatMessage("user", text))
  ELSE s

\* lines 475-480
OutputTranscription(s, c, m) ==
  IF m.output # <<>> /\ ~s.isSuspended
  THEN LET s1 == [s EXCEPT !.currentOutputTranscription[c] = @ \o m.output]
       IN onTranscriptionUpdate(s1, ChatMessage("mochi", s1.currentOutputTranscription[c]))
  ELSE s

\* lines 482-534: nothing more while suspended; else the interruption and
\* the end of the turn
Events(s, c, m) ==
  LET r == IF s.isSuspended
           THEN Logged(s, [k |-> "ignored", c |-> c, interrupted |-> m.interrupted,
                           turnComplete |-> m.turnComplete,
                           goodbye |-> IsGoodbye(ToLowerCase(Trim(
                                         s.currentInputTranscription[c]))),
                           deepSleep |-> s.deepSleepRequested])
           ELSE LET s1 == IF m.interrupted THEN Interrupted(s, c) ELSE s
                IN IF m.turnComplete THEN TurnComplete(s1, c) ELSE s1
  IN IF m.turnComplete THEN [r EXCEPT !.turnRequest[c] = FALSE] ELSE r

\* lines 444-534: the handler after its function calls
Content(s, c, m) ==
  Events(OutputTranscription(InputTranscription(Audio(s, m), c, m), c, m), c, m)

\* lines 422-442: the function calls from the i-th on, up to the await of
\* a search (lines 272-290) or through to the end of the handler
RECURSIVE FunctionCalls(_, _, _, _)
FunctionCalls(s, c, m, i) ==
  IF i > Len(m.toolCalls) THEN Content(s, c, m)
  ELSE LET fc == m.toolCalls[i]
       IN IF fc.name \in {"search_internet", "set_reminder"} /\ ~fc.args
          THEN \* fc.args.query, fc.args.label: a property of undefined
               Logged(s, [k |-> "threw", c |-> c, id |-> i])
          ELSE IF fc.name = "search_internet" /\ fc.valid
          THEN [onStateChange(s, "THINKING", "searching")
                  EXCEPT !.pending = @ \cup {[c |-> c, m |-> m, i |-> i]}]
          ELSE IF fc.name = "set_reminder" /\ fc.valid
          THEN FunctionCalls(
                 sendToolResponse(setAlarm(s, s.now + fc.delay, fc.label),
                                  c, i, fc, "reminder set"), c, m, i + 1)
          ELSE IF fc.name = "enter_deep_sleep"
          THEN FunctionCalls(
                 sendToolResponse([s EXCEPT !.deepSleepRequested = TRUE,
                                            !.turnRequest[c] = TRUE],
                                  c, i, fc, "entering deep sleep"), c, m, i + 1)
          ELSE FunctionCalls(sendToolResponse(s, c, i, fc, "error"), c, m, i + 1)

\* A message arrives on an open connection (while no handler of an equal
\* message of the connection waits for a search)
OnMessage(c, m) ==
  /\ connState[c] = "open"
  /\ m \in scope.messages
  /\ \A h \in pending : ~(h.c = c /\ h.m = m)
  /\ Step(FunctionCalls(Logged([Cur EXCEPT !.nMsgs = @ + 1],
                               [k |-> "message", c |-> c, m |-> m, i |-> 1]), c, m, 1),
          "OnMessage")

\* The search of a suspended handler has answered (found) or failed
SearchDone(h, found) ==
  /\ h \in pending
  /\ LET fc == h.m.toolCalls[h.i]
         s1 == sendToolResponse([Cur EXCEPT !.pending = @ \ {h}], h.c, h.i, fc,
                                IF found THEN "answer" ELSE "apology")
     IN Step(FunctionCalls(Logged(s1, [k |-> "resumed", c |-> h.c, m |-> h.m, i |-> h.i]),
                           h.c, h.m, h.i + 1), "SearchDone")

\* lines 527-532: the settle timer fires
SettleTimer(c) ==
  /\ settleTimers[c] > 0
  /\ LET s1 == Logged([Cur EXCEPT !.settleTimers[c] = @ - 1],
                      [k |-> "settle", c |-> c])
     IN Step(IF s1.session # NULL /\ ~s1.isSuspended
             THEN onStateChange(onTranscriptionUpdate(s1, NoMessage), "LISTENING", "")
             ELSE s1, "SettleTimer")

\* Time passes; line 456: the sources that have played to their end leave
\* the tracked set.  Only a playing source or an armed alarm waits for the
\* clock: unless the scope lets it run free, it stands still while there is
\* neither
Tick ==
  /\ now < scope.time
  /\ scope.freeClock \/ audioSources # {} \/ activeAlarms # <<>> \/ alarmTimers # {}
  /\ LET ended == {src \in audioSources : now + 1 >= src.start + src.duration}
     IN Step([Cur EXCEPT !.now = @ + 1, !.audioSources = @ \ ended], "Tick")

\* ------------------------------------------------------------------------
\* Messages the server sends
\* ------------------------------------------------------------------------
NoCalls == <<>>
NoText == <<>>

AudioMessage == Message(NoCalls, 1, NoText, NoText, FALSE, FALSE)
InputMessage(text) == Message(NoCalls, 0, text, NoText, FALSE, FALSE)
OutputMessage(text) == Message(NoCalls, 0, NoText, text, FALSE, FALSE)
InterruptedMessage == Message(NoCalls, 0, NoText, NoText, TRUE, FALSE)
TurnCompleteMessage == Message(NoCalls, 0, NoText, NoText, FALSE, TRUE)
ToolCallMessage(calls) == Message(calls, 0, NoText, NoText, FALSE, FALSE)

Search == FunctionCall("search_internet", TRUE, 0)
DeepSleep == FunctionCall("enter_deep_sleep", TRUE, 0)
Reminder(delay) == FunctionCall("set_reminder", TRUE, delay)
ReminderFor(delay, label) == [Reminder(delay) EXCEPT !.label = label]
\* a call of a function the code does not know, a search without a query, a
\* reminder without a label or with a delay that is no number, a search
\* and a reminder without args
Unknown == FunctionCall("open_door", TRUE, 0)
BadSearch == FunctionCall("search_internet", FALSE, 0)
BadReminder == FunctionCall("set_reminder", FALSE, 1)
BareSearch == BareCall("search_internet")
BareReminder == BareCall("set_reminder")

\* ------------------------------------------------------------------------
\* Initial state and next-state relation
\* ------------------------------------------------------------------------
InitWith(sc) ==
  /\ session = NULL
  /\ inputAudioContext = NULL
  /\ outputAudioContext = NULL
  /\ microphoneStream = NULL
  /\ scriptProcessor = NULL
  /\ isSpeaking = FALSE
  /\ nextStartTime = 0
  /\ audioSources = {}
  /\ conversationHistory = <<>>
  /\ isSuspended = FALSE
  /\ deepSleepRequested = FALSE
  /\ registered = FALSE
  /\ currentInputTranscription = [c \in Calls |-> <<>>]
  /\ currentOutputTranscription = [c \in Calls |-> <<>>]
  /\ connState = [c \in Calls |-> "none"]
  /\ micState = [c \in Calls |-> "none"]
  /\ inCtxState = [c \in Calls |-> "none"]
  /\ outCtxState = [c \in Calls |-> "none"]
  /\ procState = [c \in Calls |-> "none"]
  /\ releases = [conn |-> [c \in Calls |-> 0], mic |-> [c \in Calls |-> 0],
                 inCtx |-> [c \in Calls |-> 0], outCtx |-> [c \in Calls |-> 0]]
  /\ startPc = [c \in Calls |-> At("idle", NULL)]
  /\ stopWait = [k \in StopConts |-> 0]
  /\ pending = {}
  /\ settleTimers = [c \in Calls |-> 0]
  /\ mochiState = "IDLE"
  /\ statusText = ""
  /\ currentTranscription = NoMessage
  /\ isPowerSaving = FALSE
  /\ publishedHistory = <<>>
  /\ activeAlarms = <<>>
  /\ nextAlarmId = 1
  /\ alarmTimers = {}
  /\ alarmSpeech = 0
  /\ rung = <<>>
  /\ cancelCalls = <<>>
  /\ nAlarmCalls = 0
  /\ now = 0
  /\ nStops = 0
  /\ nMsgs = 0
  /\ turnRequest = [c \in Calls |-> FALSE]
  /\ failed = {}
  /\ endedBefore = [c \in Calls |-> {}]
  /\ stopsAtStart = [c \in Calls |-> 0]
  /\ lastEnd = [c \in Calls |-> 0]
  /\ procCtx = [c \in Calls |-> NULL]
  /\ chunks = <<>>
  /\ frames = <<>>
  /\ isSessionActive = FALSE
  /\ sample \in sc.samples
  /\ recovered = NoSample
  /\ weatherCache = NoCache
  /\ weatherWait = 0
  /\ weatherPlace = [asked |-> [l \in Locations |-> 0], cached |-> NoPlace]
  /\ scope = sc
  /\ last = [op |-> "Init", log |-> <<>>]

Next ==
  \/ \E c \in Calls : StartCall(c)
  \/ \E c \in Calls, suspended \in BOOLEAN : StartMicGranted(c, suspended)
  \/ \E c \in Calls : StartMicDenied(c)
  \/ \E c \in Calls : StartInputResumed(c)
  \/ \E c \in Calls : StartOutputResumed(c)
  \/ \E c \in Calls : ConnOpen(c)
  \/ \E c \in Calls : ConnectRejected(c)
  \/ \E c \in Calls : OnError(c)
  \/ \E c \in Calls : OnClose(c)
  \/ \E userName \in BOOLEAN : StopCall(userName)
  \/ \E k \in StopConts : StopInputClosed(k)
  \/ \E k \in StopConts : StopOutputClosed(k)
  \/ WakeUpMochi
  \/ \E c \in Calls : \E m \in scope.messages : OnMessage(c, m)
  \/ \E h \in pending, found \in BOOLEAN : SearchDone(h, found)
  \/ \E c \in Calls : SettleTimer(c)
  \/ Tick

\* One session and a conversation
TalkStarts == 1
TalkStops == 1
TalkMsgs == 5
TalkTime == 1

TalkMessages ==
  {AudioMessage, InterruptedMessage, TurnCompleteMessage,
   InputMessage(<<"TAM BIET">>), InputMessage(<<"MOCHI", " ">>), InputMessage(<<"OI">>),
   OutputMessage(<<"x">>),
   ToolCallMessage(<<DeepSleep>>), ToolCallMessage(<<Search>>)}

TalkScope ==
  [starts |-> TalkStarts, stops |-> TalkStops, msgs |-> TalkMsgs, time |-> TalkTime,
   suspended |-> BOOLEAN, messages |-> TalkMessages, samples |-> {0}, freeClock |-> FALSE,
   alarmCalls |-> 0]

Init == InitWith(TalkScope)

Spec == Init /\ [][Next]_vars

\* Start and stop calls in every interleaving, around one message
LifeStops == 2
LifeMsgs == 1
LifeTime == 1

LifeMessages ==
  {AudioMessage, TurnCompleteMessage,
   Message(NoCalls, 0, <<"TAM BIET">>, NoText, FALSE, TRUE),
   ToolCallMessage(<<Search, DeepSleep>>)}

LifeScope ==
  [starts |-> MaxStarts, stops |-> LifeStops, msgs |-> LifeMsgs, time |-> LifeTime,
   suspended |-> BOOLEAN, messages |-> LifeMessages, samples |-> {0}, freeClock |-> FALSE,
   alarmCalls |-> 0]

InitLife == InitWith(LifeScope)

SpecLife == InitLife /\ [][Next]_vars

\* One session and the tool calls of two messages
ToolsStarts == 1
ToolsStops == 1
ToolsMsgs == 2
ToolsTime == 1

ToolsMessages ==
  {ToolCallMessage(<<Search, Unknown>>),
   ToolCallMessage(<<Search, Search>>),
   ToolCallMessage(<<Reminder(1)>>),
   ToolCallMessage(<<Reminder(-1), Reminder(0)>>),
   ToolCallMessage(<<BadSearch, BadReminder, Unknown>>),
   ToolCallMessage(<<BareSearch, DeepSleep>>),
   ToolCallMessage(<<DeepSleep, BareReminder>>),
   AudioMessage, TurnCompleteMessage,
   Message(NoCalls, 0, <<"TAM BIET">>, NoText, FALSE, TRUE)}

ToolsScope ==
  [starts |-> ToolsStarts, stops |-> ToolsStops, msgs |-> ToolsMsgs,
   time |-> ToolsTime, suspended |-> BOOLEAN, messages |-> ToolsMessages,
   samples |-> {0}, freeClock |-> FALSE,
   alarmCalls |-> 0]

InitTools == InitWith(ToolsScope)

SpecTools == InitTools /\ [][Next]_vars

\* Two startLiveSession calls, one stop, and a farewell followed by the
\* wake phrase
WakeStops == 1
WakeMsgs == 2
WakeTime == 1

WakeMessages ==
  {Message(NoCalls, 0, <<"TAM BIET">>, NoText, FALSE, TRUE),
   InputMessage(<<"MOCHI", " ", "OI">>), InputMessage(<<"x">>),
   AudioMessage, TurnCompleteMessage, ToolCallMessage(<<Search>>)}

WakeScope ==
  [starts |-> MaxStarts, stops |-> WakeStops, msgs |-> WakeMsgs, time |-> WakeTime,
   suspended |-> BOOLEAN, messages |-> WakeMessages, samples |-> {0},
   freeClock |-> FALSE, alarmCalls |-> 0]

InitWake == InitWith(WakeScope)

SpecWake == InitWake /\ [][Next]_vars

\* One session whose microphone is captured while it talks
CaptureStarts == 1
CaptureStops == 1
CaptureMsgs == 3
CaptureTime == 1

\* what a chunk holds
CaptureSamples == {0, 1}

CaptureMessages ==
  {AudioMessage, TurnCompleteMessage, InterruptedMessage,
   Message(NoCalls, 0, <<"TAM BIET">>, NoText, FALSE, TRUE),
   ToolCallMessage(<<Search>>)}

CaptureScope ==
  [starts |-> CaptureStarts, stops |-> CaptureStops, msgs |-> CaptureMsgs,
   time |-> CaptureTime, suspended |-> BOOLEAN, messages |-> CaptureMessages,
   samples |-> {0}, freeClock |-> FALSE, alarmCalls |-> 0]

InitCapture == InitWith(CaptureScope)

NextCapture ==
  \/ Next
  \/ \E c \in Calls, data \in CaptureSamples : OnAudioProcess(c, data)

SpecCapture == InitCapture /\ [][NextCapture]_vars

\* The sessions the user starts, wakes and stops by double clicks
AppStarts == 2
AppStops == 2
AppMsgs == 2
AppTime == 1

AppMessages ==
  {AudioMessage, TurnCompleteMessage,
   Message(NoCalls, 0, <<"TAM BIET">>, NoText, FALSE, TRUE),
   ToolCallMessage(<<DeepSleep>>), ToolCallMessage(<<Search>>)}

AppScope ==
  [starts |-> AppStarts, stops |-> AppStops, msgs |-> AppMsgs, time |-> AppTime,
   suspended |-> BOOLEAN, messages |-> AppMessages, samples |-> {0},
   freeClock |-> FALSE, alarmCalls |-> 0]

InitApp == InitWith(AppScope)

NextApp ==
  \/ DoubleClick
  \/ \E c \in Calls, suspended \in BOOLEAN : StartMicGranted(c, suspended)
  \/ \E c \in Calls : StartMicDenied(c)
  \/ \E c \in Calls : StartInputResumed(c)
  \/ \E c \in Calls : StartOutputResumed(c)
  \/ \E c \in Calls : ConnOpen(c)
  \/ \E c \in Calls : ConnectRejected(c)
  \/ \E c \in Calls : OnError(c)
  \/ \E c \in Calls : OnClose(c)
  \/ \E k \in StopConts : StopInputClosed(k)
  \/ \E k \in StopConts : StopOutputClosed(k)
  \/ \E c \in Calls : \E m \in scope.messages : OnMessage(c, m)
  \/ \E h \in pending, found \in BOOLEAN : SearchDone(h, found)
  \/ \E c \in Calls : SettleTimer(c)
  \/ Tick

SpecApp == InitApp /\ [][NextApp]_vars

\* One session and the playback of its audio, on a clock that runs whether
\* or not a segment plays
PlayStarts == 1
PlayStops == 1
PlayMsgs == 4
PlayTime == 3

LongAudioMessage == Message(NoCalls, 2, NoText, NoText, FALSE, FALSE)

PlayMessages ==
  {AudioMessage, LongAudioMessage, InterruptedMessage, TurnCompleteMessage,
   Message(NoCalls, 0, <<"TAM BIET">>, NoText, FALSE, TRUE),
   ToolCallMessage(<<Search>>)}

PlayScope ==
  [starts |-> PlayStarts, stops |-> PlayStops, msgs |-> PlayMsgs,
   time |-> PlayTime, suspended |-> BOOLEAN, messages |-> PlayMessages,
   samples |-> {0}, freeClock |-> TRUE,
   alarmCalls |-> 0]

InitPlay == InitWith(PlayScope)

SpecPlay == InitPlay /\ [][Next]_vars

\* The alarm service: alarms set by reminders of a session and from outside
\* it, cancelled, and ringing as their timers fire
AlarmsStarts == 1
AlarmsStops == 1
AlarmsMsgs == 1
AlarmsTime == 2
AlarmsCalls == 2

AlarmDelays == {-1, 1, 2}
AlarmLabels == {"call mum"}
AlarmIds == 1..(MaxAlarms + 1)

AlarmsMessages ==
  {ToolCallMessage(<<Reminder(1), ReminderFor(2, "call mum")>>),
   ToolCallMessage(<<Reminder(-1), Search>>),
   TurnCompleteMessage,
   Message(NoCalls, 0, <<"TAM BIET">>, NoText, FALSE, TRUE)}

AlarmsScope ==
  [starts |-> AlarmsStarts, stops |-> AlarmsStops, msgs |-> AlarmsMsgs,
   time |-> AlarmsTime, suspended |-> BOOLEAN, messages |-> AlarmsMessages,
   samples |-> {0}, freeClock |-> FALSE, alarmCalls |-> AlarmsCalls]

InitAlarms == InitWith(AlarmsScope)

NextAlarms ==
  \/ Next
  \/ \E delay \in AlarmDelays, label \in AlarmLabels : SetAlarmCall(delay, label)
  \/ \E id \in AlarmIds : CancelAlarmCall(id)
  \/ \E t \in alarmTimers : AlarmFires(t)
  \/ AlarmSpoken

SpecAlarms == InitAlarms /\ [][NextAlarms]_vars

\* The weather lookup alone, with the clock that ends the cache entries
WeatherTime == 3

Sunny == <<"28", ";", "sunny", ";", "*">>

\* answers of the remote service: two as asked for (one with white space),
\* the sentinel in capitals and in small letters, two and four fields, a
\* word and a number with more text as temperature, a blank condition, no
\* emoji, nothing
WeatherAnswers ==
  {Sunny,
   <<" ", "-3", ";", " ", "rain", " ", ";", "*", " ">>,
   <<"NULL", ";", "unknown", ";", "?">>,
   <<"null", ";", "unknown", ";", "?">>,
   <<"28", ";", "sunny">>,
   <<"28", ";", "sunny", ";", "*", ";", "*">>,
   <<"warm", ";", "sunny", ";", "*">>,
   <<"28", ",5", ";", "sunny", ";", "*">>,
   <<"28", ";", " ", ";", "*">>,
   <<"28", ";", "sunny", ";">>,
   <<>>}

WeatherScope ==
  [starts |-> 0, stops |-> 0, msgs |-> 0, time |-> WeatherTime, suspended |-> {},
   messages |-> {}, samples |-> {0}, freeClock |-> TRUE,
   alarmCalls |-> 0, locations |-> {"here"}, answers |-> WeatherAnswers]

InitWeather == InitWith(WeatherScope)

NextWeather ==
  \/ \E loc \in Locations : WeatherCall(loc)
  \/ \E text \in scope.answers, loc \in Locations : WeatherAnswered(text, loc)
  \/ \E loc \in Locations : WeatherRejected(loc)
  \/ Tick

SpecWeather == InitWeather /\ [][NextWeather]_vars

\* Lookups for two locations, answered as asked for
PlacesTime == 3

PlacesAnswers == {Sunny, <<"-3", ";", "rain", ";", "*">>}

PlacesScope ==
  [starts |-> 0, stops |-> 0, msgs |-> 0, time |-> PlacesTime, suspended |-> {},
   messages |-> {}, samples |-> {0}, freeClock |-> TRUE,
   alarmCalls |-> 0, locations |-> Locations, answers |-> PlacesAnswers]

InitPlaces == InitWith(PlacesScope)

SpecPlaces == InitPlaces /\ [][NextWeather]_vars

\* The codec alone: one sample is encoded as createBlob encodes it and
\* decoded as decodeAudioData decodes it
CodecScope ==
  [starts |-> 0, stops |-> 0, msgs |-> 0, time |-> 0, suspended |-> {},
   messages |-> {}, samples |-> Samples, freeClock |-> FALSE,
   alarmCalls |-> 0]

InitCodec == InitWith(CodecScope)

RoundTrip ==
  /\ recovered = NoSample
  /\ recovered' = <<decodeAudioData(createBlob(sample))>>
  /\ last' = [op |-> "RoundTrip", log |-> <<>>]
  /\ UNCHANGED <<session, inputAudioContext, outputAudioContext, microphoneStream,
       scriptProcessor, isSpeaking, nextStartTime, audioSources,
       conversationHistory, isSuspended, deepSleepRequested, registered,
       currentInputTranscription, currentOutputTranscription,
       connState, micState, inCtxState, outCtxState, procState, releases,
       startPc, stopWait, pending, settleTimers,
       mochiState, statusText, currentTranscription, isPowerSaving,
       publishedHistory, activeAlarms, nextAlarmId, alarmTimers, alarmSpeech,
       rung, cancelCalls, nAlarmCalls, now, nStops, nMsgs, scope,
       turnRequest, failed, endedBefore, stopsAtStart, lastEnd, procCtx,
       chunks, frames, isSessionActive, sample,
       weatherCache, weatherWait, weatherPlace>>

NextCodec == RoundTrip

SpecCodec == InitCodec /\ [][NextCodec]_vars

\* ------------------------------------------------------------------------
\* Properties
\* ------------------------------------------------------------------------
\* positions in the log of the last step of the entries of one kind
Entries(kind) == {i \in 1..Len(last.log) : last.log[i].k = kind}

OpenConnections == {c \in Calls : connState[c] = "open"}
LiveMicrophones == {c \in Calls : micState[c] = "live"}

NothingHeld ==
  /\ session = NULL
  /\ microphoneStream = NULL
  /\ scriptProcessor = NULL
  /\ inputAudioContext = NULL
  /\ outputAudioContext = NULL

NoCallInProgress ==
  /\ \A c \in Calls : startPc[c].at \in {"idle", "done"}
  /\ \A k \in StopConts : stopWait[k] = 0

\* C1: in every interleaving of start and stop calls, at most one session
\* connection and at most one microphone stream are open at any time.
C1_OneSessionOneMicrophone ==
  /\ Cardinality(OpenConnections) <= 1
  /\ Cardinality(LiveMicrophones) <= 1

\* C2: a stopLiveSession call runs every teardown step even when an
\* earlier step throws or rejects: a call in which a release rejects still
\* reaches the resets and the IDLE it ends with.
C2_StopRunsEveryStep ==
  Entries("stopRejected") # {} => Entries("stopDone") # {}

\* C3: each resource of a session is released exactly once, also when
\* stopLiveSession is called more than once for the session: no connection,
\* microphone stream or audio context sees a second release call.
C3_ReleasedOnce ==
  \A c \in Calls :
    /\ releases.conn[c] <= 1
    /\ releases.mic[c] <= 1
    /\ releases.inCtx[c] <= 1
    /\ releases.outCtx[c] <= 1

Observable ==
  <<mochiState, statusText, currentTranscription, publishedHistory,
    isSpeaking, isSuspended, deepSleepRequested>>

\* C4: stopLiveSession called when no session is open (nothing held, no
\* call in progress) is a no-op: it leaves the visible state and status, the
\* displayed transcription, the published history and the flags as they were.
C4_StopOnStoppedIsNoOp ==
  [][(NothingHeld /\ NoCallInProgress /\ last'.op = "StopCall")
       => Observable' = Observable]_vars

\* C4 as amended: stopLiveSession called while nothing is held raises
\* nothing and releases nothing, and ends with the stopped values: state
\* IDLE, no transcription displayed, empty published history, flags false,
\* empty queue with cursor 0.
C4_StopOnStoppedReemits ==
  [][(NothingHeld /\ last'.op = "StopCall")
       => /\ Entries("stopDone")' # {}
          /\ Entries("stopRejected")' = {}
          /\ releases' = releases
          /\ NothingHeld'
          /\ mochiState' = "IDLE"
          /\ currentTranscription' = NoMessage
          /\ publishedHistory' = <<>>
          /\ ~isSpeaking' /\ ~isSuspended' /\ ~deepSleepRequested'
          /\ audioSources' = {} /\ nextStartTime' = 0]_vars

\* a stop call on a stopped orchestrator has just run, after an earlier
\* start had registered the callbacks
C4_Witness ==
  /\ last.op = "StopCall"
  /\ registered
  /\ \E i \in Entries("stopCalled") : ~last.log[i].held
  /\ Entries("stopDone") # {}

\* C5: when startLiveSession begins a session and when stopLiveSession
\* completes, the per-session state is at its default: history empty,
\* accumulators empty, suspend, deep-sleep and speaking flags false, no
\* tracked source and cursor 0.
C5_DefaultsAtStartAndStop ==
  /\ \A i \in Entries("startBegun") :
       /\ conversationHistory = <<>>
       /\ currentInputTranscription[last.log[i].c] = <<>>
       /\ currentOutputTranscription[last.log[i].c] = <<>>
       /\ ~isSuspended /\ ~deepSleepRequested /\ ~isSpeaking
       /\ audioSources = {} /\ nextStartTime = 0
  /\ Entries("stopDone") # {} =>
       /\ publishedHistory = <<>>
       /\ ~isSuspended /\ ~deepSleepRequested /\ ~isSpeaking
       /\ audioSources = {} /\ nextStartTime = 0

\* an interrupted flag arrived in the message handled by the last step,
\* on connection c: handled, or passed over while suspended
InterruptedSeen(c) ==
  \/ \E i \in Entries("interrupted") : last.log[i].c = c
  \/ \E i \in Entries("ignored") : last.log[i].c = c /\ last.log[i].interrupted

Cleared(c) ==
  /\ audioSources = {}
  /\ currentInputTranscription[c] = <<>>
  /\ currentOutputTranscription[c] = <<>>

\* C6: after every inbound interrupted event, also one that arrives while
\* the suspend flag is true, the tracked playback set is empty and both
\* accumulators are empty.
C6_InterruptedAlwaysClears ==
  \A c \in Calls : InterruptedSeen(c) => Cleared(c)

\* C7: ENTERING_DEEP_SLEEP is emitted only while a turn-complete event is
\* handled, and only if an enter_deep_sleep call arrived in that turn, after
\* the previous turn-complete event.
C7_DeepSleepOnlyFromSameTurn ==
  \A i \in Entries("state") :
    last.log[i].v = "ENTERING_DEEP_SLEEP" =>
      \E j \in Entries("turnComplete") : j < i /\ last.log[j].requested

\* C8: the suspend flag is set and SLEEPING is emitted only while a
\* turn-complete event is handled whose finalized input holds a farewell
\* phrase and with no deep-sleep request pending; with both a request and
\* a farewell the request wins: ENTERING_DEEP_SLEEP is emitted, the
\* deep-sleep flag is reset and the suspend flag stays false.
C8_FarewellSleepOnly ==
  /\ [](\A i \in Entries("state") :
          last.log[i].v = "SLEEPING" =>
            \E j \in Entries("turnComplete") :
              j < i /\ last.log[j].goodbye /\ ~last.log[j].deepSleep)
  /\ [](\A j \in Entries("turnComplete") :
          last.log[j].deepSleep =>
            /\ \E i \in Entries("state") :
                 i > j /\ last.log[i].v = "ENTERING_DEEP_SLEEP"
            /\ \A i \in Entries("state") : last.log[i].v # "SLEEPING"
            /\ ~deepSleepRequested
            /\ ~isSuspended)
  /\ [][~isSuspended /\ isSuspended' =>
          \E j \in Entries("turnComplete")' :
            last'.log[j].goodbye /\ ~last'.log[j].deepSleep]_vars

\* a turn has just ended with a farewell and a deep-sleep request together
C8_Witness ==
  \E j \in Entries("turnComplete") : last.log[j].goodbye /\ last.log[j].deepSleep

\* C9: when the handler reaches the end of a turn (a turn-complete event in
\* a session that is not suspended) whose finalized (trimmed, lower-cased)
\* input holds a farewell phrase, with no deep-sleep flag set, the state
\* becomes SLEEPING, the suspend flag becomes true and the displayed
\* transcription is cleared by a null publication.
C9_FarewellSleeps ==
  \A i \in Entries("turnComplete") :
    last.log[i].goodbye /\ ~last.log[i].deepSleep
    => /\ mochiState = "SLEEPING"
       /\ isSuspended
       /\ currentTranscription = NoMessage
       /\ \E j \in Entries("transcription") : j > i /\ last.log[j].v = NoMessage

\* a turn whose input was the farewell in capitals has just ended
C9_Witness ==
  /\ \E i \in Entries("turnComplete") : last.log[i].goodbye /\ ~last.log[i].deepSleep
  /\ conversationHistory # <<>>
  /\ conversationHistory[Len(conversationHistory)] = ChatMessage("user", <<"tam biet">>)

\* C10: while the suspend flag is true no transcription with content is
\* published: every publication with content happens with the flag false,
\* and none is on display while the flag is true.
C10_SilentWhileSuspended ==
  /\ \A i \in Entries("transcription") :
       last.log[i].v # NoMessage => ~last.log[i].suspended
  /\ isSuspended => currentTranscription = NoMessage

\* a transcription delta has just arrived in a session that stays suspended
C10_Witness ==
  /\ isSuspended
  /\ \E i \in Entries("message") :
       last.log[i].m.input # <<>> \/ last.log[i].m.output # <<>>

\* C11: while the suspend flag is true and stays true, no inbound event
\* changes the visible state: the handler of a message (its tool calls, a
\* search among them, its audio, transcriptions, interrupted and
\* turn-complete flags) leaves the state as it was.
C11_FilteredWhileSuspended ==
  [][(isSuspended /\ isSuspended' /\ last'.op \in {"OnMessage", "SearchDone"})
       => mochiState' = mochiState]_vars

\* the entries of the log that open a run of a message handler: the
\* arrival of a message, or the return of its search
HandlerEntries ==
  {i \in 1..Len(last.log) : last.log[i].k \in {"message", "resumed"}}

IsResponse(e) == e.k = "toolResponse"
Responses == SelectSeq(last.log, IsResponse)

\* C12: every function call of every tool-call event gets exactly one
\* response with its id: a run of the handler answers the calls from the
\* one it starts at, one response each and in order, up to the last call
\* of the message or up to the search it waits for next.
C12_OneResponsePerCall ==
  \A h \in HandlerEntries :
    LET e == last.log[h]
        n == Len(e.m.toolCalls)
    IN \E stop \in (e.i - 1)..n :
         /\ Len(Responses) = stop - e.i + 1
         /\ \A j \in 1..Len(Responses) :
              Responses[j].id = e.i + j - 1 /\ Responses[j].c = e.c
         /\ \/ stop = n
            \/ [c |-> e.c, m |-> e.m, i |-> stop + 1] \in pending

\* a call the dispatcher has no function for, or one whose required
\* arguments are missing or mistyped
BadCall(fc) ==
  \/ fc.name \notin {"search_internet", "set_reminder", "enter_deep_sleep"}
  \/ fc.name \in {"search_internet", "set_reminder"} /\ ~fc.valid

\* C13: a tool call with an unknown name or with missing or mistyped
\* required arguments gets the generic error string as its result and
\* raises nothing out of the handler; a message of such calls registers no
\* alarm, sets no deep-sleep flag and leaves the session open.
C13_BadCallsAnswered ==
  /\ [](Entries("threw") = {})
  /\ [](\A h \in HandlerEntries :
          \A j \in 1..Len(Responses) :
            BadCall(last.log[h].m.toolCalls[Responses[j].id])
              => Responses[j].result = "error")
  /\ [][\A h \in HandlerEntries' :
          LET calls == last'.log[h].m.toolCalls
          IN (calls # <<>> /\ \A i \in 1..Len(calls) : BadCall(calls[i]))
             => /\ Len(Responses') = Len(calls)
                /\ activeAlarms' = activeAlarms
                /\ nextAlarmId' = nextAlarmId
                /\ deepSleepRequested' = deepSleepRequested
                /\ session' = session
                /\ connState' = connState]_vars

\* the call whose session is the latest one started
Latest(c) ==
  /\ startPc[c].at # "idle"
  /\ \A d \in Calls : d > c => startPc[d].at = "idle"

\* C14: after the close event of a session, and until the next
\* startLiveSession, the visible state is IDLE.
C14_ClosedStaysIdle ==
  \A c \in Calls : Latest(c) /\ connState[c] = "closed" => mochiState = "IDLE"

\* C15: once a session has ended (its connection is closed: after a stop,
\* an error or a close by the server) the orchestrator holds no handle of
\* it and its microphone stream is not live.
C15_HandleDestroyed ==
  \A c \in Calls :
    connState[c] = "closed" => session # c /\ micState[c] # "live"

\* nothing that the call c created is open or held
Released(c) ==
  /\ session # c
  /\ connState[c] \notin {"connecting", "open"}
  /\ micState[c] # "live"
  /\ inCtxState[c] \in {"none", "closed"}
  /\ outCtxState[c] \in {"none", "closed"}

\* C16: every fatal failure emits ERROR with a status and then calls
\* stopLiveSession; once no call is in progress any more, nothing of the
\* failed session is open: no session, no microphone stream, no audio
\* context.
C16_FatalEndsStopped ==
  /\ \A i \in Entries("fatal") :
       \E j \in Entries("state"), k \in Entries("stopCalled") :
         /\ i < j /\ j < k
         /\ last.log[j].v = "ERROR" /\ last.log[j].status # ""
  /\ \A c \in failed : NoCallInProgress => Released(c)

\* C17: a segment is never scheduled to start before the end of a segment
\* scheduled earlier, whatever happened in between.
C17_NeverBeforeAnEarlierEnd ==
  \A i \in Entries("scheduled") : last.log[i].start >= last.log[i].after

\* C17 as amended: a segment is never scheduled to start before the end of
\* a segment that is still in the tracked set when it is enqueued.
C17_NeverBeforeATrackedEnd ==
  \A i \in Entries("scheduled") :
    \A a \in last.log[i].tracked :
      last.log[i].start >= a.start + a.duration

\* a segment has just been queued behind two others that are still
\* tracked and not played to their end, one of which starts after time 0
C17_Witness ==
  \E i \in Entries("scheduled") :
    /\ Cardinality(last.log[i].tracked) >= 2
    /\ last.log[i].start > now
    /\ \E a \in last.log[i].tracked : a.start > 0 /\ a.start + a.duration > now

\* C18: a sample of [-1, 1] that is encoded and decoded comes back within
\* 1/32768 of itself.
C18_RoundTripWithinOneStep ==
  recovered # NoSample => Abs(recovered[1] - sample) <= SampleGrid

\* C19: setAlarm with a fire time in the past registers nothing: the list
\* of active alarms and the next id are as they were.
C19_PastAlarmIgnored ==
  \A i \in Entries("setAlarm") :
    last.log[i].delay < 0 => last.log[i].after = last.log[i].before

\* setAlarm has just been called with a time in the past while an alarm
\* was active
C19_Witness ==
  \E i \in Entries("setAlarm") :
    last.log[i].delay < 0 /\ last.log[i].before.alarms # <<>>

\* C20: setAlarm returns the id of the alarm it registered when the fire
\* time is not in the past, and no id when it is.
C20_ReturnsTheId ==
  \A i \in Entries("setAlarm") :
    IF last.log[i].delay < 0
    THEN last.log[i].returned = NULL
    ELSE /\ last.log[i].returned = last.log[i].before.nextId
         /\ \E a \in 1..Len(last.log[i].after.alarms) :
              last.log[i].after.alarms[a].id = last.log[i].returned

\* C21: in every state of the alarm service and for every id, cancelAlarm
\* called twice leaves the list and the timers that one call leaves, and
\* one call removes the alarm and the timer of that id and no other.
C21_CancelIdempotent ==
  \A id \in AlarmIds :
    LET once == cancelAlarm(Cur, id)
        twice == cancelAlarm(once, id)
    IN /\ AlarmState(twice) = AlarmState(once)
       /\ once.activeAlarms = SelectSeq(activeAlarms, LAMBDA a : a.id # id)
       /\ once.alarmTimers = {x \in alarmTimers : x.id # id}

\* cancelAlarm has been called twice with the id of an alarm that was
\* active at the first call, and another alarm is still active
C21_Witness ==
  /\ activeAlarms # <<>>
  /\ \E i, j \in 1..Len(cancelCalls) :
       i < j /\ cancelCalls[i].id = cancelCalls[j].id /\ cancelCalls[i].removed

\* C22: an alarm rings at most once, on its expiry and not before, with
\* its own label, and is then gone from the list; an alarm for which
\* cancelAlarm was called after it was set and before its expiry never
\* rings; an alarm of the list has its timer armed.
C22_RingsOnceOnExpiry ==
  /\ \A i, j \in 1..Len(rung) : rung[i].id = rung[j].id => i = j
  /\ \A i \in 1..Len(rung) :
       /\ Len(rung[i].listed) = 1
       /\ rung[i].listed[1].label = rung[i].label
       /\ rung[i].at >= rung[i].listed[1].time
       /\ \A a \in 1..Len(activeAlarms) : activeAlarms[a].id # rung[i].id
       /\ \A c \in 1..Len(cancelCalls) :
            cancelCalls[c].id = rung[i].id /\ cancelCalls[c].assigned
              => cancelCalls[c].at >= rung[i].listed[1].time
  /\ \A a \in 1..Len(activeAlarms) :
       \E x \in alarmTimers : x.id = activeAlarms[a].id

\* the steps of startLiveSession and stopLiveSession
SessionCalls ==
  {"StartCall", "StartMicGranted", "StartMicDenied", "StartInputResumed",
   "StartOutputResumed", "ConnOpen", "ConnectRejected", "StopCall",
   "StopInputClosed", "StopOutputClosed"}

\* C23: no step of startLiveSession or stopLiveSession changes the list of
\* alarms, the timers or the next id, and an alarm set by a reminder
\* rings at its fire time, not before.
C23_AlarmsOutliveSessions ==
  /\ [][last'.op \in SessionCalls
         => UNCHANGED <<activeAlarms, alarmTimers, nextAlarmId>>]_vars
  /\ [](\A i \in 1..Len(rung) :
          Len(rung[i].listed) = 1 => rung[i].at >= rung[i].listed[1].time)

\* C24: when a set_reminder call is answered with the confirmation, the
\* setAlarm call before the answer has added an alarm with the label and
\* the time asked for.
C24_ConfirmedMeansRegistered ==
  \A i \in Entries("toolResponse") :
    last.log[i].result = "reminder set"
      => /\ i > 1
         /\ last.log[i - 1].k = "setAlarm"
         /\ LET e == last.log[i - 1]
            IN /\ Len(e.after.alarms) = Len(e.before.alarms) + 1
               /\ e.after.alarms[Len(e.after.alarms)].time = e.time
               /\ e.after.alarms[Len(e.after.alarms)].label = e.label

IsPrefix(a, b) == Len(a) <= Len(b) /\ SubSeq(b, 1, Len(a)) = a

\* the histories published by the last step, in order
Published == SelectSeq(last.log, LAMBDA e : e.k = "history")

\* C25: a history published by a handler of the session extends the one
\* published before it, entry for entry, and its entries have text; the
\* entries a turn-complete adds are the user's, trimmed and lower-cased,
\* then the assistant's; the history published last is empty when a
\* session starts and after a stop has finished.
C25_HistoryAppendOnly ==
  /\ [](\A i \in 1..Len(Published) :
          \A j \in 1..Len(Published[i].v) : Published[i].v[j].text # <<>>)
  /\ [][\A i \in 1..Len(Published') :
          LET before == IF i = 1 THEN publishedHistory ELSE Published'[i - 1].v
              after == Published'[i].v
          IN \/ /\ IsPrefix(before, after)
                /\ Len(after) - Len(before) \in {1, 2}
                /\ Len(after) - Len(before) = 2
                     => /\ after[Len(after) - 1].speaker = "user"
                        /\ after[Len(after)].speaker = "mochi"
                /\ \A c \in Calls :
                     (last'.op = "OnMessage" /\ last'.log[1].c = c
                        /\ after[Len(before) + 1].speaker = "user")
                       => after[Len(before) + 1].text
                            = ToLowerCase(Trim(currentInputTranscription[c]
                                               \o last'.log[1].m.input))
             \/ after = <<>>
                /\ \E e \in 1..Len(last'.log) : last'.log[e].k = "stopDone"]_vars
  /\ [][last'.op = "StartCall" => publishedHistory' = <<>>]_vars
  /\ [](Entries("stopDone") # {} /\ registered => publishedHistory = <<>>)

\* the fields of an answer, as the claim counts them
Fields(text) == Split(Trim(text))

\* an answer is well formed when it has exactly three fields, the first
\* is a number and nothing else, and the other two are not blank
WellFormed(text) ==
  /\ Len(Fields(text)) = 3
  /\ \E u \in NumberUnits : Trim(Fields(text)[1]) = <<u>>
  /\ Trim(Fields(text)[2]) # <<>>
  /\ Trim(Fields(text)[3]) # <<>>

\* C26: an answer that is not well formed (the NULL sentinel, not three
\* fields, a temperature that is no number, a blank condition or emoji)
\* is answered with a failure and leaves the weather cache as it was;
\* no step of a lookup changes the state of the live session.
C26_MalformedWeatherFails ==
  /\ [](\A i \in Entries("weatherAnswered") :
          ~WellFormed(last.log[i].text)
            => /\ last.log[i].after = last.log[i].before
               /\ Entries("weatherFailed") # {}
               /\ Entries("weatherReturned") = {})
  /\ [][last'.op \in {"WeatherCall", "WeatherAnswered", "WeatherRejected"}
         => UNCHANGED <<session, mochiState, statusText, currentTranscription,
                        isSpeaking, isSuspended, deepSleepRequested,
                        conversationHistory, publishedHistory>>]_vars

\* C27: a message handler runs only when no earlier handler is waiting in
\* its search: inbound messages are handled one after the other.
C27_OneHandlerAtATime ==
  [][last'.op = "OnMessage" => pending = {}]_vars

\* what the user sees of the session, and its flags
Visible ==
  <<mochiState, statusText, currentTranscription, isPowerSaving,
    publishedHistory, isSpeaking, isSuspended, deepSleepRequested>>

\* C28: a settle timer that fires after stopLiveSession has dropped the
\* session, after new audio has begun to play (SPEAKING), or after a
\* following turn-complete has entered deep sleep, does nothing: what the
\* user sees stays as it is.
C28_SettleCancelledByChange ==
  [][(/\ last'.op = "SettleTimer"
      /\ \/ session = NULL
         \/ isSpeaking
         \/ isPowerSaving /\ mochiState = "SLEEPING")
       => UNCHANGED Visible]_vars

\* stopLiveSession has torn the session of call c down and a later call
\* of startLiveSession has begun after that
Stale(c) == \E d \in Calls : c \in endedBefore[d]

\* C29: a settle timer of a torn-down session that fires, or a handler of
\* a torn-down session that resumes after its search, once a later
\* session has started, changes nothing of what the user sees and none
\* of the flags.
C29_StaleCallbacksInert ==
  [][(\E i \in 1..Len(last'.log) :
        /\ last'.log[i].k \in {"settle", "resumed"}
        /\ Stale(last'.log[i].c))
       => UNCHANGED Visible]_vars

\* the segments tracked for the output context of call d
SourcesOf(d) == {src \in audioSources : src.ctx = d}

\* C30: a stopLiveSession call that resumes after an await, when a session
\* has begun since the last call of stopLiveSession, leaves that session
\* alone: its audio contexts and the handles of them, its segments, the
\* speaking, suspend and deep-sleep flags, and the visible state.
C30_StopSparesLaterSession ==
  [][\A d \in Calls :
       (/\ last'.op \in {"StopInputClosed", "StopOutputClosed"}
        /\ startPc[d].at # "idle"
        /\ stopsAtStart[d] = nStops)
         => /\ inCtxState'[d] = inCtxState[d]
            /\ outCtxState'[d] = outCtxState[d]
            /\ inputAudioContext = d => inputAudioContext' = d
            /\ outputAudioContext = d => outputAudioContext' = d
            /\ SourcesOf(d)' = SourcesOf(d)
            /\ UNCHANGED <<isSpeaking, isSuspended, deepSleepRequested, mochiState>>]_vars

\* a turn-complete flag arrived in the message handled by the last step, on
\* connection c: handled, or passed over while suspended
TurnCompleteSeen(c) ==
  \/ \E i \in Entries("turnComplete") : last.log[i].c = c
  \/ \E i \in Entries("ignored") : last.log[i].c = c /\ last.log[i].turnComplete

\* C31: after every turn-complete event, also one that arrives while the
\* suspend flag is true, the deep-sleep request flag is false.
C31_DeepSleepConsumed ==
  (\E c \in Calls : TurnCompleteSeen(c)) => ~deepSleepRequested

\* C32: after every turn-complete event and after every interrupted event,
\* also those that arrive while the suspend flag is true, the input and the
\* output accumulator of the connection are empty.
C32_AccumulatorsReset ==
  \A c \in Calls :
    TurnCompleteSeen(c) \/ InterruptedSeen(c)
    => /\ currentInputTranscription[c] = <<>>
       /\ currentOutputTranscription[c] = <<>>

\* the step about to be taken handles, on connection c, message m, which
\* has no function call and brings an input delta
HandlesInput(c, m) ==
  /\ last'.op = "OnMessage"
  /\ last'.log[1].k = "message"
  /\ last'.log[1].c = c
  /\ last'.log[1].m = m
  /\ m.toolCalls = <<>>
  /\ m.input # <<>>

\* the wake-up of connection c: the accumulator cleared, the flag reset,
\* null published, LISTENING shown
WokenUp(c) ==
  /\ currentInputTranscription'[c] = <<>>
  /\ ~isSuspended'
  /\ currentTranscription' = NoMessage
  /\ \E i \in 1..Len(last'.log) :
       last'.log[i].k = "transcription" /\ last'.log[i].v = NoMessage
  /\ mochiState' = "LISTENING"

\* C33: an input delta that arrives while suspended is added to the
\* accumulator; if the accumulator, lower-cased, then holds the wake phrase
\* the session wakes up, else it stays suspended with the text accumulated.
C33_WakePhraseWakes ==
  [][\A c \in Calls : \A m \in scope.messages :
       (isSuspended /\ HandlesInput(c, m)) =>
         LET text == currentInputTranscription[c] \o m.input
         IN IF Includes(ToLowerCase(text), WakePhrase)
            THEN WokenUp(c)
            ELSE /\ isSuspended'
                 /\ currentInputTranscription'[c] = text
                 /\ mochiState' = mochiState]_vars

\* the frames that the chunks from the n-th on call for: one for each chunk
\* captured while the speaking flag was clear, in the order of capture
RECURSIVE Due(_, _)
Due(cs, n) ==
  IF n > Len(cs) THEN <<>>
  ELSE IF cs[n].speaking THEN Due(cs, n + 1)
  ELSE <<Frame(cs[n].c, n, cs[n].data)>> \o Due(cs, n + 1)

\* C34: the frames handed to the transport are, in order, one for each
\* chunk captured while the speaking flag was clear, suspended or not, and
\* none for a chunk captured while it was set.
C34_FramesFollowChunks == frames = Due(chunks, 1)

\* a chunk was skipped while Mochi spoke and a later one was forwarded while
\* the session was suspended
C34_Witness ==
  /\ Len(chunks) = 2
  /\ chunks[1].speaking
  /\ chunks[2].suspended
  /\ Len(frames) = 1

\* C35: the suspend flag and the speaking flag are never both true, so a
\* chunk captured while the session is suspended is always forwarded.
C35_SuspendedNeverSpeaking ==
  /\ ~(isSuspended /\ isSpeaking)
  /\ \A n \in 1..Len(chunks) :
       chunks[n].suspended =>
         \E i \in 1..Len(frames) : frames[i].n = n

\* audio arrived while the session was suspended, and a chunk was captured
\* while it was suspended
C35_Witness ==
  /\ isSuspended
  /\ \E i \in Entries("message") : last.log[i].m.audio > 0
  /\ \E n \in 1..Len(chunks) : chunks[n].suspended

\* C36: after a wake-up, by the wake phrase or by wakeUpMochi, the input
\* accumulator of the session is empty.
C36_WakeUpStartsClean ==
  [][(/\ isSuspended /\ ~isSuspended'
      /\ last'.op \in {"WakeUpMochi", "OnMessage", "SearchDone"})
       => \A c \in Calls :
            connState[c] = "open" => currentInputTranscription'[c] = <<>>]_vars

\* C37: a double click on Mochi while a session is active and the state
\* shown is SLEEPING, after a farewell or after a deep-sleep request, makes
\* the state LISTENING.
C37_DoubleClickWakes ==
  [][(/\ last'.op = "DoubleClick"
      /\ isSessionActive
      /\ session # NULL
      /\ mochiState = "SLEEPING")
       => mochiState' = "LISTENING"]_vars

\* C38: whenever the orchestrator holds no session and no call of
\* startLiveSession or stopLiveSession is under way, isSessionActive is
\* false.
C38_ActiveFlagAgrees ==
  (session = NULL /\ NoCallInProgress) => ~isSessionActive

\* the callbacks of the step about to be taken publish nothing: no state,
\* no history, no transcription with content
PublishesNothing ==
  \A i \in 1..Len(last'.log) :
    /\ last'.log[i].k \notin {"state", "history"}
    /\ last'.log[i].k = "transcription" => last'.log[i].v = NoMessage

\* C39: once stopLiveSession has run to its end and no startLiveSession
\* has begun since, a message handler that runs or resumes after its search
\* publishes nothing.
C39_SilentAfterStop ==
  [][(/\ nStops > 0
      /\ session = NULL
      /\ NoCallInProgress
      /\ last.op \in {"StopCall", "StopInputClosed", "StopOutputClosed", "OnClose"}
      /\ last'.op \in {"OnMessage", "SearchDone"})
       => PublishesNothing]_vars

\* C40: data comes from the cache only for the location it was fetched
\* for and only before its expiry; a call at or after the expiry asks the
\* remote service.
C40_CacheByPlaceAndTime ==
  /\ \A i \in Entries("weatherReturned") :
       last.log[i].cached =>
         /\ last.log[i].fetchedFor = last.log[i].loc
         /\ last.log[i].at < last.log[i].expiry
  /\ (last.op = "WeatherCall" /\ weatherCache # NoCache
        /\ now >= weatherCache[1].expiry)
       => Entries("weatherRequested") # {}


====
